---- MODULE Spec2Model ----
(***************************************************************************)
(* Godot_Fast_WFC: the FastWFCWrapper GDExtension class                    *)
(* (src/src/lib/fast_wfc_wrapper.cpp, src/src/include/fast_wfc_wrapper.hpp)*)
(* and the generation engine it drives.  The engine (the fast-wfc library  *)
(* under src/fast-wfc) is not part of the source tree at hand; its wave,   *)
(* propagation, observation, tile compiler and pattern extractor are       *)
(* modelled from sections 3 and 4 of the specification.                    *)
(***************************************************************************)
EXTENDS Integers, Sequences, FiniteSets, TLC

(***************************************************************************)
(* Bounds of the model.                                                    *)
(***************************************************************************)
MaxCells == 2
MaxSeed == 1
MaxInit == 2
MaxSourceId == 15
MaxExampleSeed == 23

(***************************************************************************)
(* FastWFCWrapper::WFCType                                                 *)
(***************************************************************************)
TYPE_OVERLAPPING == 0
TYPE_TILING == 1

Range(s) == {s[k] : k \in DOMAIN s}

RECURSIVE SumTo(_, _)
SumTo(f, n) == IF n = 0 THEN 0 ELSE f[n] + SumTo(f, n - 1)

(***************************************************************************)
(* Seeded sequence generator (spec section 3): a deterministic stream      *)
(* from an integer seed.  A multiplicative congruential generator of       *)
(* reduced modulus stands for the engine's generator.                      *)
(***************************************************************************)
SeedGen(seed) == (seed % 12) + 1
NextGen(g) == (g * 2) % 13
Draw(g, n) == g % n

(***************************************************************************)
(* get_random_seed(): any value the platform's generator may return.       *)
(***************************************************************************)
RandomSeeds == 0 .. MaxSeed

(***************************************************************************)
(* Tile symmetry classes and their orientation counts (spec section 3).    *)
(***************************************************************************)
NbOrientations(symmetry) ==
    CASE symmetry = "X" -> 1
      [] symmetry = "I" -> 2
      [] symmetry = "backslash" -> 2
      [] symmetry = "T" -> 4
      [] symmetry = "L" -> 4
      [] OTHER -> 8

\* Orientation reached by one clockwise quarter turn, per symmetry class.
RotationMap(symmetry) ==
    CASE symmetry = "X" -> <<0>>
      [] symmetry \in {"I", "backslash"} -> <<1, 0>>
      [] symmetry \in {"T", "L"} -> <<1, 2, 3, 0>>
      [] OTHER -> <<1, 2, 3, 0, 5, 6, 7, 4>>

\* Orientation reached by the reflection, per symmetry class.
ReflectionMap(symmetry) ==
    CASE symmetry = "X" -> <<0>>
      [] symmetry = "I" -> <<0, 1>>
      [] symmetry = "backslash" -> <<1, 0>>
      [] symmetry = "T" -> <<0, 3, 2, 1>>
      [] symmetry = "L" -> <<1, 0, 3, 2>>
      [] OTHER -> <<4, 7, 6, 5, 0, 3, 2, 1>>

\* Orientation of a tile in orientation o after action a of the eight
\* (0..3 the rotations, 4 the reflection, 5..7 the reflection then rotations).
RECURSIVE ActionMap(_, _, _)
ActionMap(symmetry, a, o) ==
    IF a = 0 THEN o
    ELSE IF a = 4 THEN ReflectionMap(symmetry)[o + 1]
    ELSE RotationMap(symmetry)[ActionMap(symmetry, a - 1, o) + 1]

(***************************************************************************)
(* Directions of the compatibility table: 0 up, 1 left, 2 right, 3 down.   *)
(***************************************************************************)
Directions == 0 .. 3
DirectionX(d) == <<0, -1, 1, 0>>[d + 1]
DirectionY(d) == <<-1, 0, 0, 1>>[d + 1]
OppositeDirection(d) == 3 - d

(***************************************************************************)
(* Element catalog of the tiling variant: one entry per (tile,             *)
(* orientation), indexed 1..n in tile order (spec section 4.2 step 1).     *)
(***************************************************************************)
RECURSIVE TileOffset(_, _)
TileOffset(tiles, t) ==
    IF t = 0 THEN 0
    ELSE TileOffset(tiles, t - 1) + NbOrientations(tiles[t].symmetry)

\* Catalog index of tile id t (0-based) in orientation o.
OrientedTileId(tiles, t, o) == TileOffset(tiles, t) + o + 1

TilingCatalog(tiles) ==
    LET n == TileOffset(tiles, Len(tiles))
        TileOf(e) == CHOOSE t \in 0 .. Len(tiles) - 1 :
                        /\ TileOffset(tiles, t) < e
                        /\ e <= TileOffset(tiles, t + 1)
    IN  [e \in 1 .. n |->
            [tile |-> TileOf(e),
             orientation |-> e - TileOffset(tiles, TileOf(e)) - 1,
             content |-> tiles[TileOf(e) + 1].content]]

TilingWeights(tiles) ==
    LET cat == TilingCatalog(tiles)
    IN  [e \in DOMAIN cat |-> tiles[cat[e].tile + 1].weight]

(***************************************************************************)
(* Adjacency compiler (spec section 4.2 steps 2 and 3): the entries one    *)
(* authored rule yields, and the closed-world table of all rules.  An      *)
(* entry <<e1, d, e2>> says e2 may be the neighbour of e1 in direction d.  *)
(***************************************************************************)
\* An authored rule puts tile2 to the right of tile1.  <<a, d>>: under the
\* action a of the orientation convention (1 the clockwise quarter turn, 4
\* the mirror exchanging left and right) the pair lies in direction d.
RuleActions == {<<0, 2>>, <<1, 3>>, <<2, 1>>, <<3, 0>>,
                <<4, 1>>, <<5, 0>>, <<6, 2>>, <<7, 3>>}

\* Variant: a rule is entered in its own direction only.
RuleEntriesOneWay(tiles, rule) ==
    LET s1 == tiles[rule[1] + 1].symmetry
        s2 == tiles[rule[3] + 1].symmetry
        E1(a) == OrientedTileId(tiles, rule[1], ActionMap(s1, a, rule[2]))
        E2(a) == OrientedTileId(tiles, rule[3], ActionMap(s2, a, rule[4]))
    IN  {<<E1(ad[1]), ad[2], E2(ad[1])>> : ad \in RuleActions}

\* Variant: only the four rotations of a rule are entered.
RuleEntriesRotations(tiles, rule) ==
    LET s1 == tiles[rule[1] + 1].symmetry
        s2 == tiles[rule[3] + 1].symmetry
        E1(a) == OrientedTileId(tiles, rule[1], ActionMap(s1, a, rule[2]))
        E2(a) == OrientedTileId(tiles, rule[3], ActionMap(s2, a, rule[4]))
    IN  UNION {{<<E1(ad[1]), ad[2], E2(ad[1])>>,
                <<E2(ad[1]), OppositeDirection(ad[2]), E1(ad[1])>>} :
               ad \in {q \in RuleActions : q[1] < 4}}

RuleEntries(tiles, rule) ==
    LET s1 == tiles[rule[1] + 1].symmetry
        s2 == tiles[rule[3] + 1].symmetry
        E1(a) == OrientedTileId(tiles, rule[1], ActionMap(s1, a, rule[2]))
        E2(a) == OrientedTileId(tiles, rule[3], ActionMap(s2, a, rule[4]))
    IN  UNION {{<<E1(ad[1]), ad[2], E2(ad[1])>>,
                <<E2(ad[1]), OppositeDirection(ad[2]), E1(ad[1])>>} :
               ad \in RuleActions}

GeneratePropagator(tiles, neighbors) ==
    UNION {RuleEntries(tiles, neighbors[k]) : k \in DOMAIN neighbors}

(***************************************************************************)
(* Wave (spec sections 3 and 4.3).  Cells are numbered row-major from 1;   *)
(* a domain is the set of catalog indices still possible at a cell.        *)
(***************************************************************************)
CellIndex(i, j, width) == i * width + j + 1
CellRow(c, width) == (c - 1) \div width
CellCol(c, width) == (c - 1) % width

InitialWave(weights, height, width) ==
    [c \in 1 .. height * width |-> {e \in DOMAIN weights : weights[e] > 0}]

\* The neighbour of cell c in direction d, or 0 when there is none.
Neighbour(eng, c, d) ==
    LET i == CellRow(c, eng.width) + DirectionY(d)
        j == CellCol(c, eng.width) + DirectionX(d)
    IN  IF eng.periodic_output
        THEN CellIndex(i % eng.height, j % eng.width, eng.width)
        ELSE IF i < 0 \/ i >= eng.height \/ j < 0 \/ j >= eng.width
             THEN 0
             ELSE CellIndex(i, j, eng.width)

Contradiction(eng) == \E c \in DOMAIN eng.wave : eng.wave[c] = {}
Undetermined(eng) == {c \in DOMAIN eng.wave : Cardinality(eng.wave[c]) > 1}

\* The elements of set S as a sequence in increasing order.
RECURSIVE Ascending(_)
Ascending(S) ==
    IF S = {} THEN <<>>
    ELSE LET m == CHOOSE x \in S : \A y \in S : x <= y
         IN  <<m>> \o Ascending(S \ {m})

\* The events (cell, removed element) of removing the set S at cell c.
Events(c, S) == LET a == Ascending(S) IN [k \in DOMAIN a |-> <<c, a[k]>>]

(***************************************************************************)
(* Entropy of a domain (spec section 4.3, numeric semantics), in           *)
(* thousandths: ln W - (sum of w ln w) / W.                                *)
(***************************************************************************)
LnMilli == <<0, 693, 1099, 1386, 1609, 1792, 1946, 2079, 2197, 2303, 2398,
             2485, 2565, 2639, 2708, 2773, 2833, 2890, 2944, 2996, 3045,
             3091, 3135, 3178, 3219, 3258, 3296, 3332, 3367, 3401, 3434,
             3466>>

RECURSIVE WeightSum(_, _)
WeightSum(weights, S) ==
    IF S = {} THEN 0
    ELSE LET e == CHOOSE x \in S : TRUE
         IN  weights[e] + WeightSum(weights, S \ {e})

RECURSIVE PlogpSum(_, _)
PlogpSum(weights, S) ==
    IF S = {} THEN 0
    ELSE LET e == CHOOSE x \in S : TRUE
         IN  weights[e] * LnMilli[weights[e]] + PlogpSum(weights, S \ {e})

Entropy(weights, S) ==
    LnMilli[WeightSum(weights, S)]
        - (PlogpSum(weights, S) \div WeightSum(weights, S))

(***************************************************************************)
(* Propagation (spec section 4.3).  The frontier eng.propagating holds     *)
(* the (cell, removed element) events; an event is popped from its end.    *)
(* For each direction, the elements of the neighbour's domain that no      *)
(* remaining element of the source cell supports are removed and the       *)
(* neighbour enqueued.  A domain that empties fails the grid, which halts  *)
(* at once: the frontier is dropped and nothing is rolled back.            *)
(***************************************************************************)
Unsupported(eng, c1, d, c2) ==
    {e2 \in eng.wave[c2] :
        \A e1 \in eng.wave[c1] : <<e1, d, e2>> \notin eng.compat}

RECURSIVE PropagateDirections(_, _, _)
PropagateDirections(eng, c1, d) ==
    IF d > 3 THEN eng
    ELSE LET c2 == Neighbour(eng, c1, d)
         IN  IF c2 = 0 THEN PropagateDirections(eng, c1, d + 1)
             ELSE LET gone == Unsupported(eng, c1, d, c2)
                      next == [eng EXCEPT
                                 !.wave[c2] = @ \ gone,
                                 !.propagating = @ \o Events(c2, gone)]
                  IN  IF next.wave[c2] = {}
                      THEN [next EXCEPT !.propagating = <<>>]
                      ELSE PropagateDirections(next, c1, d + 1)

PropagateEvent(eng) ==
    LET n == Len(eng.propagating)
        ev == eng.propagating[n]
    IN  PropagateDirections(
            [eng EXCEPT !.propagating = SubSeq(@, 1, n - 1)], ev[1], 0)

\* Variant: one event of the frontier is handled and the rest left pending.
PropagateOne(eng) ==
    IF Contradiction(eng) THEN [eng EXCEPT !.propagating = <<>>]
    ELSE IF eng.propagating = <<>> THEN eng
    ELSE PropagateEvent(eng)

RECURSIVE Propagate(_)
Propagate(eng) ==
    IF Contradiction(eng) THEN [eng EXCEPT !.propagating = <<>>]
    ELSE IF eng.propagating = <<>> THEN eng
    ELSE Propagate(PropagateEvent(eng))

(***************************************************************************)
(* Observation (spec section 4.3): failure on a contradiction, success     *)
(* when no undetermined cell remains; otherwise the cell of minimum        *)
(* entropy (ties by the generator) is collapsed to an element drawn with   *)
(* probability proportional to weight, and the removed elements enqueued.  *)
(***************************************************************************)
ObserveStatus(eng) ==
    IF Contradiction(eng) THEN "failure"
    ELSE IF Undetermined(eng) = {} THEN "success"
    ELSE "to_continue"

MinEntropyCells(eng) ==
    {c \in Undetermined(eng) :
        \A o \in Undetermined(eng) :
            Entropy(eng.weights, eng.wave[c]) <= Entropy(eng.weights, eng.wave[o])}

\* Variant: the observed cell is drawn among all cells.
ObservedCellAny(eng) ==
    LET cand == Ascending(DOMAIN eng.wave)
    IN  cand[Draw(eng.gen, Len(cand)) + 1]

ObservedCell(eng) ==
    LET cand == Ascending(MinEntropyCells(eng))
    IN  cand[Draw(eng.gen, Len(cand)) + 1]

\* The element of domain S the draw r (0 <= r < total weight) falls on.
WeightedChoice(weights, S, r) ==
    CHOOSE e \in S :
        /\ WeightSum(weights, {x \in S : x <= e}) > r
        /\ \A f \in S : f < e => WeightSum(weights, {x \in S : x <= f}) <= r

\* Variant: an observation that draws from the generator and collapses nothing.
ObserveNothing(eng) ==
    [eng EXCEPT !.gen = NextGen(NextGen(eng.gen))]

Observe(eng) ==
    LET c == ObservedCell(eng)
        g == NextGen(eng.gen)
        e == WeightedChoice(eng.weights, eng.wave[c],
                            Draw(g, WeightSum(eng.weights, eng.wave[c])))
    IN  [eng EXCEPT !.wave[c] = {e},
                    !.propagating = @ \o Events(c, eng.wave[c] \ {e}),
                    !.gen = NextGen(g)]

\* The grid of a solved wave: each cell mapped to its collapsed element.
WaveToOutput(eng) ==
    [i \in 1 .. eng.height |->
        [j \in 1 .. eng.width |->
            LET e == CHOOSE x \in eng.wave[CellIndex(i - 1, j - 1, eng.width)] : TRUE
            IN  eng.catalog[e]]]

\* Variant: an injection goes ahead on a grid already failed.
InjectIntoFailed(eng, c, e) ==
    Propagate([eng EXCEPT
                 !.wave[c] = @ \cap {e},
                 !.propagating = @ \o Events(c, eng.wave[c] \ {e})])

(***************************************************************************)
(* Constraint injection (spec section 4.3): the cell is forced to one      *)
(* element by removing every other element of its domain and enqueueing    *)
(* them, and the frontier is drained before the call returns.  A grid      *)
(* already failed is left as it is.                                        *)
(***************************************************************************)
Inject(eng, c, e) ==
    IF Contradiction(eng) THEN eng
    ELSE Propagate([eng EXCEPT
                      !.wave[c] = @ \cap {e},
                      !.propagating = @ \o Events(c, eng.wave[c] \ {e})])

(***************************************************************************)
(* TilingWFC: construction from the tile vector and the rule tuples, and   *)
(* set_tile(tile_id, orientation, i, j) with i the row and j the column.   *)
(***************************************************************************)
TilingWFC(tiles, neighbors, height, width, periodic_output, seed) ==
    [kind |-> "tiling",
     tiles |-> tiles,
     neighbors |-> neighbors,
     catalog |-> TilingCatalog(tiles),
     weights |-> TilingWeights(tiles),
     compat |-> GeneratePropagator(tiles, neighbors),
     height |-> height,
     width |-> width,
     periodic_output |-> periodic_output,
     wave |-> InitialWave(TilingWeights(tiles), height, width),
     propagating |-> <<>>,
     gen |-> SeedGen(seed),
     seed |-> seed]

TilingSetTileValid(eng, tile_id, orientation, i, j) ==
    /\ tile_id >= 0 /\ tile_id < Len(eng.tiles)
    /\ orientation >= 0
    /\ orientation < NbOrientations(eng.tiles[tile_id + 1].symmetry)
    /\ i >= 0 /\ i < eng.height
    /\ j >= 0 /\ j < eng.width

TilingSetTile(eng, tile_id, orientation, i, j) ==
    IF TilingSetTileValid(eng, tile_id, orientation, i, j)
    THEN Inject(eng, CellIndex(i, j, eng.width),
                OrientedTileId(eng.tiles, tile_id, orientation))
    ELSE eng

\* The status set_tile reports: failure for arguments out of range and for a
\* contradiction, found at injection time.
TilingSetTileStatus(eng, tile_id, orientation, i, j) ==
    /\ TilingSetTileValid(eng, tile_id, orientation, i, j)
    /\ ~Contradiction(eng)
    /\ ~Contradiction(TilingSetTile(eng, tile_id, orientation, i, j))

(***************************************************************************)
(* Pattern extractor and compatibility builder of the overlapping variant  *)
(* (spec section 4.1).  An Array2D is [height, width, rows]; a pattern is  *)
(* an N x N sequence of rows.                                              *)
(***************************************************************************)
GetPattern(input, y, x, N) ==
    [dy \in 1 .. N |->
        [dx \in 1 .. N |->
            input.rows[((y + dy - 1) % input.height) + 1]
                      [((x + dx - 1) % input.width) + 1]]]

Reflected(p) == [y \in DOMAIN p |-> [x \in DOMAIN p |-> p[y][Len(p) + 1 - x]]]
Rotated(p) == [y \in DOMAIN p |-> [x \in DOMAIN p |-> p[x][Len(p) + 1 - y]]]

\* Identity, the three rotations, then their reflections.
Symmetries(p) ==
    <<p, Rotated(p), Rotated(Rotated(p)), Rotated(Rotated(Rotated(p))),
      Reflected(p), Reflected(Rotated(p)), Reflected(Rotated(Rotated(p))),
      Reflected(Rotated(Rotated(Rotated(p))))>>

\* Every window position (all of them for a periodic input, else the
\* fitting ones), each with its first `symmetry` variants, in reading order.
PatternList(input, options) ==
    LET N == options.pattern_size
        S == options.symmetry
        PH == IF options.periodic_input THEN input.height
              ELSE input.height - N + 1
        PW == IF options.periodic_input THEN input.width
              ELSE input.width - N + 1
        n == IF PH <= 0 \/ PW <= 0 THEN 0 ELSE PH * PW * S
    IN  [k \in 1 .. n |->
            LET pos == (k - 1) \div S
            IN  Symmetries(GetPattern(input, pos \div PW, pos % PW, N))
                    [((k - 1) % S) + 1]]

\* The first k entries of L without repetition, in order of first occurrence.
RECURSIVE Distinct(_, _)
Distinct(L, k) ==
    IF k = 0 THEN <<>>
    ELSE LET prev == Distinct(L, k - 1)
         IN  IF L[k] \in Range(prev) THEN prev ELSE Append(prev, L[k])

PatternCatalog(input, options) ==
    LET L == PatternList(input, options) IN Distinct(L, Len(L))

PatternWeights(input, options) ==
    LET L == PatternList(input, options)
        cat == Distinct(L, Len(L))
    IN  [e \in DOMAIN cat |-> Cardinality({k \in DOMAIN L : L[k] = cat[e]})]

\* Variant: the second window is taken on the opposite side.
AgreesOpposite(p1, p2, dx, dy) ==
    LET N == Len(p1)
        xmin == IF dx > 0 THEN 0 ELSE -dx
        xmax == IF dx > 0 THEN N - dx ELSE N
        ymin == IF dy > 0 THEN 0 ELSE -dy
        ymax == IF dy > 0 THEN N - dy ELSE N
    IN  \A y \in ymin .. ymax - 1 : \A x \in xmin .. xmax - 1 :
            p1[y + 1][x + 1] = p2[y + dy + 1][x + dx + 1]

\* p2, offset by (dx, dy) from p1, matches p1 on the overlap of the windows.
Agrees(p1, p2, dx, dy) ==
    LET N == Len(p1)
        xmin == IF dx < 0 THEN 0 ELSE dx
        xmax == IF dx < 0 THEN dx + N ELSE N
        ymin == IF dy < 0 THEN 0 ELSE dy
        ymax == IF dy < 0 THEN dy + N ELSE N
    IN  \A y \in ymin .. ymax - 1 : \A x \in xmin .. xmax - 1 :
            p1[y + 1][x + 1] = p2[y - dy + 1][x - dx + 1]

PatternCompatibility(cat) ==
    {t \in (DOMAIN cat) \X Directions \X (DOMAIN cat) :
        Agrees(cat[t[1]], cat[t[3]], DirectionX(t[2]), DirectionY(t[2]))}

(***************************************************************************)
(* OverlappingWFC: construction from the sample and the options, and       *)
(* set_pattern(pattern, i, j) with i the row and j the column of the wave. *)
(***************************************************************************)
WaveHeight(options) ==
    IF options.periodic_output THEN options.out_height
    ELSE options.out_height - options.pattern_size + 1

WaveWidth(options) ==
    IF options.periodic_output THEN options.out_width
    ELSE options.out_width - options.pattern_size + 1

OverlappingWFC(input, options, seed) ==
    LET catalog == PatternCatalog(input, options)
        weights == PatternWeights(input, options)
    IN  [kind |-> "overlapping",
         options |-> options,
         catalog |-> catalog,
         weights |-> weights,
         compat |-> PatternCompatibility(catalog),
         height |-> WaveHeight(options),
         width |-> WaveWidth(options),
         periodic_output |-> options.periodic_output,
         wave |-> InitialWave(weights, WaveHeight(options), WaveWidth(options)),
         propagating |-> <<>>,
         gen |-> SeedGen(seed),
         seed |-> seed]

\* The output of a solved overlapping wave, of the requested shape: each
\* cell takes the top-left value of its pattern, and the cells past the last
\* wave row or column read further into the patterns of that row or column.
ToImage(eng) ==
    [height |-> eng.options.out_height,
     width |-> eng.options.out_width,
     rows |-> [y \in 1 .. eng.options.out_height |->
                 [x \in 1 .. eng.options.out_width |->
                     LET wy == IF y > eng.height THEN eng.height ELSE y
                         wx == IF x > eng.width THEN eng.width ELSE x
                     IN  WaveToOutput(eng)[wy][wx][y - wy + 1][x - wx + 1]]]]

\* The catalog index of a pattern, or 0 when the catalog does not hold it.
PatternId(eng, pattern) ==
    IF \E e \in DOMAIN eng.catalog : eng.catalog[e] = pattern
    THEN CHOOSE e \in DOMAIN eng.catalog : eng.catalog[e] = pattern
    ELSE 0

OverlappingSetPatternValid(eng, pattern, i, j) ==
    /\ PatternId(eng, pattern.rows) # 0
    /\ i >= 0 /\ i < eng.height
    /\ j >= 0 /\ j < eng.width

OverlappingSetPattern(eng, pattern, i, j) ==
    IF OverlappingSetPatternValid(eng, pattern, i, j)
    THEN Inject(eng, CellIndex(i, j, eng.width), PatternId(eng, pattern.rows))
    ELSE eng

OverlappingSetPatternStatus(eng, pattern, i, j) ==
    /\ OverlappingSetPatternValid(eng, pattern, i, j)
    /\ ~Contradiction(eng)
    /\ ~Contradiction(OverlappingSetPattern(eng, pattern, i, j))

(***************************************************************************)
(* Godot values.  A Variant is [type, ...]; an Array is a sequence of      *)
(* Variants; a Color channel is counted in halves (0, 1, 2 for 0.0, 0.5,   *)
(* 1.0).  Return values carry their type.                                  *)
(***************************************************************************)
VArray(items) == [type |-> "ARRAY", items |-> items]
VNil == [type |-> "NIL"]
ToArray(v) == IF v.type = "ARRAY" THEN v.items ELSE <<>>

Void == [type |-> "void"]
Bool(b) == [type |-> "bool", value |-> b]
GodotArray(a) == [type |-> "Array", value |-> a]
Crash == [type |-> "crash"]
Pending == [type |-> "pending"]

NullPtr == [kind |-> "nullptr"]
NullOpt == [has_value |-> FALSE]
Some(v) == [has_value |-> TRUE, value |-> v]

\* static_cast<unsigned char>(channel * 255)
ColorToByte(c) == (c * 255) \div 2
\* A byte b handed back as the Color channel b / 255.
ByteToColor(b) == [type |-> "COLOR", num |-> b, den |-> 255]

(***************************************************************************)
(* FastWFCWrapper: construction.  The record holds the private state of    *)
(* the class, the position of the call in progress (pc) and the value the  *)
(* last call returned (ret).                                               *)
(***************************************************************************)
FastWFCWrapper ==
    [current_type |-> TYPE_OVERLAPPING,
     wfc_instance |-> [alt |-> "overlapping", ptr |-> NullPtr],
     last_result |-> [alt |-> "color", opt |-> NullOpt],
     tile_keys |-> <<>>,
     pc |-> "idle",
     ret |-> Void]

(***************************************************************************)
(* Helper methods of the wrapper.                                          *)
(***************************************************************************)
godot_color_array_to_array2d(color_array) ==
    IF Len(color_array) = 0
    THEN [height |-> 0, width |-> 0, rows |-> <<>>]
    ELSE LET height == Len(color_array)
             width == Len(ToArray(color_array[1]))
         IN  [height |-> height,
              width |-> width,
              rows |-> [y \in 1 .. height |->
                          [x \in 1 .. width |->
                              IF x <= Len(ToArray(color_array[y]))
                              THEN ColorToByte(ToArray(color_array[y])[x])
                              ELSE 0]]]

array2D_to_godot_color_array(result) ==
    [y \in 1 .. result.height |->
        VArray([x \in 1 .. result.width |-> ByteToColor(result.rows[y][x])])]

convert_variant_result_to_godot_array(result) ==
    [y \in 1 .. result.height |->
        VArray([x \in 1 .. result.width |-> result.rows[y][x]])]

find_tile_id(tile_keys, key) ==
    IF \E k \in DOMAIN tile_keys : tile_keys[k][1] = key
    THEN LET first == CHOOSE k \in DOMAIN tile_keys :
                         /\ tile_keys[k][1] = key
                         /\ \A m \in DOMAIN tile_keys :
                                tile_keys[m][1] = key => k <= m
         IN  tile_keys[first][2]
    ELSE -1

(***************************************************************************)
(* generate(): the call, and its return once the engine's run has ended.   *)
(* The Array2D the run yields maps each cell to its collapsed element.     *)
(***************************************************************************)
\* Variant: the null-instance path also switches the current type.
generate_retyping(self) ==
    IF self.wfc_instance.ptr = NullPtr
    THEN [self EXCEPT !.ret = GodotArray(<<>>), !.current_type = TYPE_TILING]
    ELSE [self EXCEPT !.pc = "observe", !.ret = Pending]

generate(self) ==
    IF self.wfc_instance.ptr = NullPtr
    THEN [self EXCEPT !.ret = GodotArray(<<>>)]
    ELSE [self EXCEPT !.pc = "observe", !.ret = Pending]

RunResult(eng) ==
    IF ObserveStatus(eng) # "success" THEN NullOpt
    ELSE IF eng.kind = "overlapping" THEN Some(ToImage(eng))
    ELSE Some([height |-> eng.height, width |-> eng.width,
               rows |-> WaveToOutput(eng)])

\* Variant: a failed run hands back the grid kept in last_result.
generate_return_stale(self) ==
    LET result_opt == RunResult(self.wfc_instance.ptr)
        shown == IF result_opt.has_value THEN result_opt ELSE self.last_result.opt
    IN  IF shown.has_value
        THEN [self EXCEPT
                !.last_result.opt = shown,
                !.ret = GodotArray(
                           convert_variant_result_to_godot_array(shown.value)),
                !.pc = "idle"]
        ELSE [self EXCEPT !.ret = GodotArray(<<>>), !.pc = "idle"]

generate_return(self) ==
    LET result_opt == RunResult(self.wfc_instance.ptr)
    IN  IF result_opt.has_value
        THEN IF self.wfc_instance.alt = "overlapping"
             THEN [self EXCEPT
                     !.last_result = [alt |-> "color", opt |-> result_opt],
                     !.ret = GodotArray(
                                array2D_to_godot_color_array(result_opt.value)),
                     !.pc = "idle"]
             ELSE [self EXCEPT
                     !.last_result = [alt |-> "variant", opt |-> result_opt],
                     !.ret = GodotArray(
                                convert_variant_result_to_godot_array(
                                    result_opt.value)),
                     !.pc = "idle"]
        ELSE [self EXCEPT !.ret = GodotArray(<<>>), !.pc = "idle"]

\* One observation of the run in progress, and the propagation after it.
run_observe(self) ==
    [self EXCEPT !.wfc_instance.ptr = Observe(@), !.pc = "propagate"]

run_propagate(self) ==
    [self EXCEPT !.wfc_instance.ptr = Propagate(@), !.pc = "observe"]

(***************************************************************************)
(* Overlapping variant: initialisation and pattern injection.              *)
(***************************************************************************)
Options(out_width, out_height, pattern_size, periodic_input, periodic_output, ground, symmetry) ==
    [periodic_input |-> periodic_input,
     periodic_output |-> periodic_output,
     out_height |-> out_height,
     out_width |-> out_width,
     symmetry |-> symmetry,
     ground |-> ground,
     pattern_size |-> pattern_size]

\* Variant: a rejected sample also drops the engine held so far.
initialize_overlapping_resetting(self, color_array, out_width, out_height, pattern_size, periodic_input, periodic_output, ground, symmetry, seed, random_seed) ==
    LET typed == [self EXCEPT !.current_type = TYPE_OVERLAPPING, !.ret = Void]
        reset == [typed EXCEPT !.wfc_instance = [alt |-> "overlapping", ptr |-> NullPtr]]
        actual_seed == IF seed = -1 THEN random_seed ELSE seed
    IN  IF Len(color_array) = 0 THEN reset
        ELSE IF color_array[1].type # "ARRAY" THEN reset
        ELSE [typed EXCEPT
                !.wfc_instance =
                    [alt |-> "overlapping",
                     ptr |-> OverlappingWFC(
                                godot_color_array_to_array2d(color_array),
                                Options(out_width, out_height, pattern_size,
                                        periodic_input, periodic_output,
                                        ground, symmetry),
                                actual_seed)]]

initialize_overlapping_from_array(self, color_array, out_width, out_height, pattern_size, periodic_input, periodic_output, ground, symmetry, seed, random_seed) ==
    LET typed == [self EXCEPT !.current_type = TYPE_OVERLAPPING, !.ret = Void]
        actual_seed == IF seed = -1 THEN random_seed ELSE seed
    IN  IF Len(color_array) = 0 THEN typed
        ELSE IF color_array[1].type # "ARRAY" THEN typed
        ELSE [typed EXCEPT
                !.wfc_instance =
                    [alt |-> "overlapping",
                     ptr |-> OverlappingWFC(
                                godot_color_array_to_array2d(color_array),
                                Options(out_width, out_height, pattern_size,
                                        periodic_input, periodic_output,
                                        ground, symmetry),
                                actual_seed)]]

initialize_overlapping_from_path(self, image, out_width, out_height, pattern_size, periodic_input, periodic_output, ground, symmetry, seed, random_seed) ==
    LET typed == [self EXCEPT !.current_type = TYPE_OVERLAPPING, !.ret = Void]
        actual_seed == IF seed = -1 THEN random_seed ELSE seed
    IN  IF ~image.has_value THEN typed
        ELSE [typed EXCEPT
                !.wfc_instance =
                    [alt |-> "overlapping",
                     ptr |-> OverlappingWFC(
                                image.value,
                                Options(out_width, out_height, pattern_size,
                                        periodic_input, periodic_output,
                                        ground, symmetry),
                                actual_seed)]]

\* `undefined` is what dereferencing the null unique_ptr does in the build
\* at hand: "crash", or a call that returns "true" or "false".
set_pattern_from_array(self, color_array, x, y, undefined) ==
    IF self.current_type # TYPE_OVERLAPPING THEN [self EXCEPT !.ret = Bool(FALSE)]
    ELSE IF self.wfc_instance.alt # "overlapping"
    THEN [self EXCEPT !.ret = Bool(FALSE)]
    ELSE IF Len(color_array) = 0 THEN [self EXCEPT !.ret = Bool(FALSE)]
    ELSE IF self.wfc_instance.ptr = NullPtr
    THEN IF undefined = "crash"
         THEN [self EXCEPT !.ret = Crash, !.pc = "crashed"]
         ELSE [self EXCEPT !.ret = Bool(undefined = "true")]
    ELSE LET pattern_array == godot_color_array_to_array2d(color_array)
             wfc == self.wfc_instance.ptr
         IN  [self EXCEPT
                !.wfc_instance.ptr = OverlappingSetPattern(wfc, pattern_array, x, y),
                !.ret = Bool(OverlappingSetPatternStatus(wfc, pattern_array, x, y))]

set_pattern_from_path(self, image, x, y) ==
    IF self.current_type # TYPE_OVERLAPPING THEN [self EXCEPT !.ret = Bool(FALSE)]
    ELSE IF ~image.has_value THEN [self EXCEPT !.ret = Bool(FALSE)]
    ELSE IF self.wfc_instance.alt = "overlapping"
    THEN IF self.wfc_instance.ptr = NullPtr
         THEN [self EXCEPT !.ret = Bool(FALSE)]
         ELSE LET wfc == self.wfc_instance.ptr
              IN  [self EXCEPT
                     !.wfc_instance.ptr =
                         OverlappingSetPattern(wfc, image.value, x, y),
                     !.ret = Bool(OverlappingSetPatternStatus(
                                     wfc, image.value, x, y))]
    ELSE [self EXCEPT !.ret = Bool(FALSE)]

\* Variant: only the one-letter symmetry names are recognised.
ParseSymmetryLetters(sym_str) ==
    IF sym_str \in {"I", "L", "T", "P"} THEN sym_str ELSE "X"

(***************************************************************************)
(* Tiling variant: initialisation and tile injection.  tile_data is the    *)
(* Dictionary in key order, each entry [key, symmetry, weight, content].   *)
(***************************************************************************)
ParseSymmetry(sym_str) ==
    IF sym_str \in {"I", "L", "T", "backslash", "P"} THEN sym_str ELSE "X"

ValidContent(content) ==
    /\ content.type = "ARRAY"
    /\ Len(content.items) > 0
    /\ content.items[1].type = "ARRAY"

TileArray(content) ==
    [height |-> Len(content.items),
     width |-> Len(content.items[1].items),
     rows |-> [y \in 1 .. Len(content.items) |-> ToArray(content.items[y])]]

TileKeys(tile_data) ==
    [i \in DOMAIN tile_data |-> <<tile_data[i].key, i - 1>>]

Tiles(tile_data) ==
    LET Valid(t) == ValidContent(t.content)
        kept == SelectSeq(tile_data, Valid)
    IN  [i \in DOMAIN kept |->
            [content |-> TileArray(kept[i].content),
             symmetry |-> ParseSymmetry(kept[i].symmetry),
             weight |-> kept[i].weight]]

\* Variant: the rule loop ends at the first rule with an unknown tile name.
NeighborsUntilUnknown(tile_keys, adjacency_rules) ==
    LET Known(rule) == /\ find_tile_id(tile_keys, rule.tile1) >= 0
                       /\ find_tile_id(tile_keys, rule.tile2) >= 0
        unknown == {i \in DOMAIN adjacency_rules : ~Known(adjacency_rules[i])}
        n == IF unknown = {} THEN Len(adjacency_rules)
             ELSE (CHOOSE i \in unknown : \A j \in unknown : i <= j) - 1
    IN  [i \in 1 .. n |->
            <<find_tile_id(tile_keys, adjacency_rules[i].tile1),
              adjacency_rules[i].orientation1,
              find_tile_id(tile_keys, adjacency_rules[i].tile2),
              adjacency_rules[i].orientation2>>]

Neighbors(tile_keys, adjacency_rules) ==
    LET Known(rule) == /\ find_tile_id(tile_keys, rule.tile1) >= 0
                       /\ find_tile_id(tile_keys, rule.tile2) >= 0
        kept == SelectSeq(adjacency_rules, Known)
    IN  [i \in DOMAIN kept |->
            <<find_tile_id(tile_keys, kept[i].tile1), kept[i].orientation1,
              find_tile_id(tile_keys, kept[i].tile2), kept[i].orientation2>>]

\* The messages initialize_tiling prints: its body holds no printerr call,
\* neither for a tile that is skipped nor for a rule that is dropped.
initialize_tiling_printed(tile_data, adjacency_rules) == <<>>

\* Variant: the seed argument is ignored in favour of get_random_seed().
initialize_tiling_random(self, tile_data, adjacency_rules, width, height, periodic_output, seed, random_seed) ==
    LET keys == TileKeys(tile_data)
    IN  [self EXCEPT
           !.current_type = TYPE_TILING,
           !.tile_keys = keys,
           !.wfc_instance =
               [alt |-> "tiling",
                ptr |-> TilingWFC(Tiles(tile_data),
                                  Neighbors(keys, adjacency_rules),
                                  height, width, periodic_output, random_seed)],
           !.ret = Void]

initialize_tiling(self, tile_data, adjacency_rules, width, height, periodic_output, seed, random_seed) ==
    LET actual_seed == IF seed = -1 THEN random_seed ELSE seed
        keys == TileKeys(tile_data)
    IN  [self EXCEPT
           !.current_type = TYPE_TILING,
           !.tile_keys = keys,
           !.wfc_instance =
               [alt |-> "tiling",
                ptr |-> TilingWFC(Tiles(tile_data),
                                  Neighbors(keys, adjacency_rules),
                                  height, width, periodic_output, actual_seed)],
           !.ret = Void]

\* Variant: an unknown tile key is taken for the first tile.
set_tile_defaulting(self, tile_key, orientation, x, y) ==
    IF self.current_type # TYPE_TILING THEN [self EXCEPT !.ret = Bool(FALSE)]
    ELSE IF self.wfc_instance.alt = "tiling"
    THEN IF self.wfc_instance.ptr = NullPtr
         THEN [self EXCEPT !.ret = Bool(FALSE)]
         ELSE LET found == find_tile_id(self.tile_keys, tile_key)
                  tile_id == IF found < 0 THEN 0 ELSE found
                  wfc == self.wfc_instance.ptr
              IN  [self EXCEPT
                     !.wfc_instance.ptr =
                         TilingSetTile(wfc, tile_id, orientation, x, y),
                     !.ret = Bool(TilingSetTileStatus(
                                     wfc, tile_id, orientation, x, y))]
    ELSE [self EXCEPT !.ret = Bool(FALSE)]

\* Variant: a cell that already holds one element refuses any further call.
set_tile_once(self, tile_key, orientation, x, y) ==
    IF self.current_type # TYPE_TILING THEN [self EXCEPT !.ret = Bool(FALSE)]
    ELSE IF self.wfc_instance.alt = "tiling"
    THEN IF self.wfc_instance.ptr = NullPtr
         THEN [self EXCEPT !.ret = Bool(FALSE)]
         ELSE LET tile_id == find_tile_id(self.tile_keys, tile_key)
                  wfc == self.wfc_instance.ptr
                  settled == /\ TilingSetTileValid(wfc, tile_id, orientation, x, y)
                             /\ Cardinality(wfc.wave[CellIndex(x, y, wfc.width)]) = 1
              IN  IF tile_id < 0 \/ settled THEN [self EXCEPT !.ret = Bool(FALSE)]
                  ELSE [self EXCEPT
                          !.wfc_instance.ptr =
                              TilingSetTile(wfc, tile_id, orientation, x, y),
                          !.ret = Bool(TilingSetTileStatus(
                                          wfc, tile_id, orientation, x, y))]
    ELSE [self EXCEPT !.ret = Bool(FALSE)]

\* Variant: the status of the engine's injection is dropped.
set_tile_accepting(self, tile_key, orientation, x, y) ==
    IF self.current_type # TYPE_TILING THEN [self EXCEPT !.ret = Bool(FALSE)]
    ELSE IF self.wfc_instance.alt = "tiling"
    THEN IF self.wfc_instance.ptr = NullPtr
         THEN [self EXCEPT !.ret = Bool(FALSE)]
         ELSE LET tile_id == find_tile_id(self.tile_keys, tile_key)
                  wfc == self.wfc_instance.ptr
              IN  IF tile_id < 0 THEN [self EXCEPT !.ret = Bool(FALSE)]
                  ELSE [self EXCEPT
                          !.wfc_instance.ptr =
                              TilingSetTile(wfc, tile_id, orientation, x, y),
                          !.ret = Bool(TilingSetTileValid(
                                          wfc, tile_id, orientation, x, y))]
    ELSE [self EXCEPT !.ret = Bool(FALSE)]

set_tile(self, tile_key, orientation, x, y) ==
    IF self.current_type # TYPE_TILING THEN [self EXCEPT !.ret = Bool(FALSE)]
    ELSE IF self.wfc_instance.alt = "tiling"
    THEN IF self.wfc_instance.ptr = NullPtr
         THEN [self EXCEPT !.ret = Bool(FALSE)]
         ELSE LET tile_id == find_tile_id(self.tile_keys, tile_key)
                  wfc == self.wfc_instance.ptr
              IN  IF tile_id < 0 THEN [self EXCEPT !.ret = Bool(FALSE)]
                  ELSE [self EXCEPT
                          !.wfc_instance.ptr =
                              TilingSetTile(wfc, tile_id, orientation, x, y),
                          !.ret = Bool(TilingSetTileStatus(
                                          wfc, tile_id, orientation, x, y))]
    ELSE [self EXCEPT !.ret = Bool(FALSE)]

(***************************************************************************)
(* save_result_to_image(): true once the image of last_result is written.  *)
(***************************************************************************)
save_result_to_image(self) ==
    [self EXCEPT !.ret = Bool(self.last_result.opt.has_value)]

(***************************************************************************)
(* A tile's content in an orientation of the convention (spec section      *)
(* 4.2): 1 .. 3 are clockwise quarter turns, 4 is the reflection along the *)
(* x axis (columns reversed), 5 .. 7 the reflection followed by the turns. *)
(***************************************************************************)
RotatedClockwise(a) ==
    [height |-> a.width,
     width |-> a.height,
     rows |-> [y \in 1 .. a.width |->
                 [x \in 1 .. a.height |-> a.rows[a.height + 1 - x][y]]]]

ReflectedAlongX(a) ==
    [height |-> a.height,
     width |-> a.width,
     rows |-> [y \in 1 .. a.height |->
                 [x \in 1 .. a.width |-> a.rows[y][a.width + 1 - x]]]]

RECURSIVE OrientedContent(_, _)
OrientedContent(a, o) ==
    IF o = 0 THEN a
    ELSE IF o = 4 THEN ReflectedAlongX(a)
    ELSE RotatedClockwise(OrientedContent(a, o - 1))

(***************************************************************************)
(* The concrete output of a solved tiling grid (spec section 4.4): every   *)
(* cell's element resolved through the catalog into the content of its     *)
(* tile in its orientation, the contents laid side by side.  The argument  *)
(* is the grid of elements as rows of a Godot Array.                       *)
(***************************************************************************)
id_to_tiling(value) ==
    LET tile_height == value[1].items[1].content.height
        tile_width == value[1].items[1].content.width
    IN  [i \in 1 .. Len(value) * tile_height |->
            [j \in 1 .. Len(value[1].items) * tile_width |->
                LET element == value[((i - 1) \div tile_height) + 1]
                                   .items[((j - 1) \div tile_width) + 1]
                IN  OrientedContent(element.content, element.orientation)
                        .rows[((i - 1) % tile_height) + 1][((j - 1) % tile_width) + 1]]]

(***************************************************************************)
(* FastWFC.gd: the marker content of a tile, and the reading of a grid of  *)
(* marker blocks.  A GDScript Array of rows is a sequence of sequences.    *)
(***************************************************************************)
MarkerContent(tile_id) ==
    VArray(<<VArray(<<0, 1, 2>>), VArray(<<3, tile_id, 5>>), VArray(<<6, 7, 8>>)>>)

\* Variant: the quarter turns are read anticlockwise.
detect_orientation_anticlockwise(tile_3x3) ==
    LET corners == <<tile_3x3[1][1], tile_3x3[1][3], tile_3x3[3][1], tile_3x3[3][3]>>
    IN  CASE corners = <<0, 2, 6, 8>> -> 0
          [] corners = <<2, 8, 0, 6>> -> 1
          [] corners = <<8, 6, 2, 0>> -> 2
          [] corners = <<6, 0, 8, 2>> -> 3
          [] corners = <<2, 0, 8, 6>> -> 4
          [] corners = <<0, 6, 2, 8>> -> 5
          [] corners = <<6, 8, 0, 2>> -> 6
          [] corners = <<8, 2, 6, 0>> -> 7
          [] OTHER -> 0

_detect_orientation(tile_3x3) ==
    LET top_left == tile_3x3[1][1]
        top_right == tile_3x3[1][3]
        bottom_left == tile_3x3[3][1]
        bottom_right == tile_3x3[3][3]
    IN  IF top_left = 0 /\ top_right = 2 /\ bottom_left = 6 /\ bottom_right = 8
        THEN 0
        ELSE IF top_left = 6 /\ top_right = 0 /\ bottom_left = 8 /\ bottom_right = 2
        THEN 1
        ELSE IF top_left = 8 /\ top_right = 6 /\ bottom_left = 2 /\ bottom_right = 0
        THEN 2
        ELSE IF top_left = 2 /\ top_right = 8 /\ bottom_left = 0 /\ bottom_right = 6
        THEN 3
        ELSE IF top_left = 2 /\ top_right = 0 /\ bottom_left = 8 /\ bottom_right = 6
        THEN 4
        ELSE IF top_left = 8 /\ top_right = 2 /\ bottom_left = 6 /\ bottom_right = 0
        THEN 5
        ELSE IF top_left = 6 /\ top_right = 8 /\ bottom_left = 0 /\ bottom_right = 2
        THEN 6
        ELSE IF top_left = 0 /\ top_right = 6 /\ bottom_left = 2 /\ bottom_right = 8
        THEN 7
        ELSE 0

\* The 3x3 chunk at row y, column x (0-based): of each of its three rows the
\* cells the result holds.
Chunk(result, y, x) ==
    [dy \in 1 .. 3 |->
        IF y + dy <= Len(result)
        THEN SubSeq(result[y + dy], x + 1,
                    IF x + 3 <= Len(result[y + dy]) THEN x + 3
                    ELSE Len(result[y + dy]))
        ELSE <<>>]

ScriptError == [type |-> "error"]

\* Variant: the rows are stepped through by the length of the first row.
interpret_tilemap_output_square(result) ==
    LET tile_size == 3
        xs == [k \in 1 .. (Len(result[1]) + tile_size - 1) \div tile_size |->
                  (k - 1) * tile_size]
        Full(tile_3x3) == \A dy \in 1 .. 3 : Len(tile_3x3[dy]) = 3
    IN  IF \A i \in DOMAIN xs, j \in DOMAIN xs : Full(Chunk(result, xs[i], xs[j]))
        THEN GodotArray(
                 [i \in DOMAIN xs |->
                    [j \in DOMAIN xs |->
                        LET tile_3x3 == Chunk(result, xs[i], xs[j])
                        IN  <<tile_3x3[2][2], _detect_orientation(tile_3x3)>>]])
        ELSE ScriptError

\* Indexing a chunk that is not full is a script error.
interpret_tilemap_output(result) ==
    LET tile_size == 3
        ys == [k \in 1 .. (Len(result) + tile_size - 1) \div tile_size |->
                  (k - 1) * tile_size]
        xs == [k \in 1 .. (Len(result[1]) + tile_size - 1) \div tile_size |->
                  (k - 1) * tile_size]
        Full(tile_3x3) == \A dy \in 1 .. 3 : Len(tile_3x3[dy]) = 3
    IN  IF \A i \in DOMAIN ys, j \in DOMAIN xs : Full(Chunk(result, ys[i], xs[j]))
        THEN GodotArray(
                 [i \in DOMAIN ys |->
                    [j \in DOMAIN xs |->
                        LET tile_3x3 == Chunk(result, ys[i], xs[j])
                            source_id == tile_3x3[2][2]
                            orientation_id == _detect_orientation(tile_3x3)
                        IN  <<source_id, orientation_id>>]])
        ELSE ScriptError

(***************************************************************************)
(* Inputs the callers draw from.                                           *)
(***************************************************************************)
\* The grids of at most MaxCells cells, as <<height, width>>.
Shapes ==
    {shape \in (1 .. MaxCells) \X (1 .. MaxCells) : shape[1] * shape[2] <= MaxCells}
Rows == 0 .. MaxCells - 1
Columns == 0 .. MaxCells - 1

Block(v) == VArray(<<VArray(<<v>>)>>)
TileEntry(key, symmetry, weight, content) ==
    [key |-> key, symmetry |-> symmetry, weight |-> weight, content |-> content]
Rule(tile1, orientation1, tile2, orientation2) ==
    [tile1 |-> tile1, orientation1 |-> orientation1,
     tile2 |-> tile2, orientation2 |-> orientation2]

TilesNilABC ==
    <<TileEntry("a", "X", 1, VNil), TileEntry("b", "X", 1, Block("b")),
      TileEntry("c", "X", 1, Block("c"))>>
TilesA == <<TileEntry("a", "X", 1, Block("a"))>>
TilesAC == <<TileEntry("a", "X", 1, Block("a")), TileEntry("c", "I", 2, Block("c"))>>

TilingInputs ==
    {[tile_data |-> TilesNilABC, periodic_output |-> FALSE,
      adjacency_rules |-> <<Rule("a", 0, "a", 0), Rule("b", 0, "b", 0),
                            Rule("a", 0, "b", 0)>>],
     [tile_data |-> TilesA, periodic_output |-> FALSE, adjacency_rules |-> <<>>],
     [tile_data |-> TilesAC, periodic_output |-> TRUE,
      adjacency_rules |-> <<Rule("a", 0, "a", 0), Rule("z", 0, "a", 0),
                            Rule("c", 0, "c", 0), Rule("a", 0, "c", 1)>>]}

TileKeyInputs == {"a", "b", "c"}
OrientationInputs == {0, 1}

Checker == <<VArray(<<0, 2>>), VArray(<<2, 0>>)>>
Stripes == <<VArray(<<0, 2>>), VArray(<<0, 2>>)>>
OverlappingInputs ==
    {[color_array |-> Checker, pattern_size |-> 2, periodic_input |-> TRUE,
      periodic_output |-> FALSE, symmetry |-> 2],
     [color_array |-> <<>>, pattern_size |-> 2, periodic_input |-> TRUE,
      periodic_output |-> FALSE, symmetry |-> 2],
     [color_array |-> <<VNil>>, pattern_size |-> 2, periodic_input |-> TRUE,
      periodic_output |-> FALSE, symmetry |-> 2],
     [color_array |-> Checker, pattern_size |-> 3, periodic_input |-> FALSE,
      periodic_output |-> FALSE, symmetry |-> 2]}

PatternInputs == {<<>>, Checker, Stripes}

\* get_random_seed() is consulted only for the seed -1.
SeedInputs ==
    {<<seed, 0>> : seed \in 0 .. MaxSeed} \cup {<<-1, r>> : r \in RandomSeeds}

\* read_image(): the files on disk, nullopt for a path that does not load.
Images == {NullOpt, Some(godot_color_array_to_array2d(Checker))}

UndefinedOutcomes == {"crash", "true", "false"}

OutSize(n, pattern_size, periodic_output) ==
    IF periodic_output THEN n ELSE n + pattern_size - 1

(***************************************************************************)
(* State: the wrapper under test (its private fields, the position of the  *)
(* call in progress, the last return value), the record of calls made on   *)
(* it, and a pair of wrappers driven through one script.                   *)
(***************************************************************************)
VARIABLES current_type, wfc_instance, last_result, tile_keys, pc, ret,
          call, inits, tile_data, injected, observations, generated,
          pair, script, interpreted_result

wrapper == <<current_type, wfc_instance, last_result, tile_keys, pc, ret>>
history == <<call, inits, tile_data, injected, observations, generated>>
vars == <<wrapper, history, pair, script, interpreted_result>>

Self ==
    [current_type |-> current_type,
     wfc_instance |-> wfc_instance,
     last_result |-> last_result,
     tile_keys |-> tile_keys,
     pc |-> pc,
     ret |-> ret]

Become(s) ==
    /\ current_type' = s.current_type
    /\ wfc_instance' = s.wfc_instance
    /\ last_result' = s.last_result
    /\ tile_keys' = s.tile_keys
    /\ pc' = s.pc
    /\ ret' = s.ret

NoScript == [kind |-> "none"]

Init ==
    /\ current_type = FastWFCWrapper.current_type
    /\ wfc_instance = FastWFCWrapper.wfc_instance
    /\ last_result = FastWFCWrapper.last_result
    /\ tile_keys = FastWFCWrapper.tile_keys
    /\ pc = FastWFCWrapper.pc
    /\ ret = FastWFCWrapper.ret
    /\ call = [op |-> "new"]
    /\ inits = 0
    /\ tile_data = <<>>
    /\ injected = {}
    /\ observations = 0
    /\ generated = FALSE
    /\ pair = [w \in 1 .. 2 |-> [self |-> FastWFCWrapper, position |-> "new"]]
    /\ script = NoScript
    /\ interpreted_result = Void

(***************************************************************************)
(* What a set_tile call aims at: the cell and the engine element, defined  *)
(* when the call reaches the engine with arguments in range.               *)
(***************************************************************************)
ReachesEngine(self, tile_key, orientation, x, y) ==
    /\ self.current_type = TYPE_TILING
    /\ self.wfc_instance.alt = "tiling"
    /\ self.wfc_instance.ptr # NullPtr
    /\ find_tile_id(self.tile_keys, tile_key) >= 0
    /\ TilingSetTileValid(self.wfc_instance.ptr,
                          find_tile_id(self.tile_keys, tile_key), orientation, x, y)

TargetCell(self, x, y) == CellIndex(x, y, self.wfc_instance.ptr.width)

TargetElement(self, tile_key, orientation) ==
    OrientedTileId(self.wfc_instance.ptr.tiles,
                   find_tile_id(self.tile_keys, tile_key), orientation)

(***************************************************************************)
(* The calls.                                                              *)
(***************************************************************************)
InitializeOverlappingFromArray ==
    /\ pc = "idle"
    /\ inits < MaxInit
    /\ \E inp \in OverlappingInputs, shape \in Shapes, seeds \in SeedInputs :
          LET s == initialize_overlapping_from_array(
                       Self, inp.color_array,
                       OutSize(shape[2], inp.pattern_size, inp.periodic_output),
                       OutSize(shape[1], inp.pattern_size, inp.periodic_output),
                       inp.pattern_size, inp.periodic_input, inp.periodic_output,
                       FALSE, inp.symmetry, seeds[1], seeds[2])
          IN  /\ Become(s)
              /\ call' = [op |-> "initialize_overlapping_from_array",
                          malformed |-> \/ Len(inp.color_array) = 0
                                        \/ inp.color_array[1].type # "ARRAY",
                          oversized |->
                              /\ ~inp.periodic_input
                              /\ \/ inp.pattern_size > Len(inp.color_array)
                                 \/ \E y \in DOMAIN inp.color_array :
                                        inp.pattern_size >
                                            Len(ToArray(inp.color_array[y]))]
              /\ injected' = IF s.wfc_instance = wfc_instance THEN injected ELSE {}
    /\ inits' = inits + 1
    /\ UNCHANGED <<tile_data, observations, generated, pair, script, interpreted_result>>

InitializeOverlappingFromPath ==
    /\ pc = "idle"
    /\ inits < MaxInit
    /\ \E image \in Images, shape \in Shapes, seeds \in SeedInputs :
          LET s == initialize_overlapping_from_path(
                       Self, image, shape[2], shape[1], 2, TRUE, TRUE, FALSE, 2,
                       seeds[1], seeds[2])
          IN  /\ Become(s)
              /\ call' = [op |-> "initialize_overlapping_from_path"]
              /\ injected' = IF s.wfc_instance = wfc_instance THEN injected ELSE {}
    /\ inits' = inits + 1
    /\ UNCHANGED <<tile_data, observations, generated, pair, script, interpreted_result>>

SetPatternFromArray ==
    /\ pc = "idle"
    /\ \E color_array \in PatternInputs, x \in Rows, y \in Columns,
          undefined \in UndefinedOutcomes :
          /\ wfc_instance.ptr # NullPtr => undefined = "crash"
          /\ Become(set_pattern_from_array(Self, color_array, x, y, undefined))
          /\ call' = [op |-> "set_pattern_from_array",
                      engineless |-> Len(color_array) > 0 /\ wfc_instance.ptr = NullPtr]
    /\ UNCHANGED <<inits, tile_data, injected, observations, generated, pair, script, interpreted_result>>

SetPatternFromPath ==
    /\ pc = "idle"
    /\ \E image \in Images, x \in Rows, y \in Columns :
          /\ Become(set_pattern_from_path(Self, image, x, y))
          /\ call' = [op |-> "set_pattern_from_path"]
    /\ UNCHANGED <<inits, tile_data, injected, observations, generated, pair, script, interpreted_result>>

InitializeTiling ==
    /\ pc = "idle"
    /\ inits < MaxInit
    /\ \E inp \in TilingInputs, shape \in Shapes, seeds \in SeedInputs :
          /\ Become(initialize_tiling(Self, inp.tile_data, inp.adjacency_rules,
                                      shape[2], shape[1], inp.periodic_output,
                                      seeds[1], seeds[2]))
          /\ call' = [op |-> "initialize_tiling",
                      adjacency_rules |-> inp.adjacency_rules,
                      printed |-> initialize_tiling_printed(
                                      inp.tile_data, inp.adjacency_rules)]
          /\ tile_data' = inp.tile_data
    /\ inits' = inits + 1
    /\ injected' = {}
    /\ UNCHANGED <<observations, generated, pair, script, interpreted_result>>

SetTile ==
    /\ pc = "idle"
    /\ \E tile_key \in TileKeyInputs, orientation \in OrientationInputs,
          x \in Rows, y \in Columns :
          LET s == set_tile(Self, tile_key, orientation, x, y)
              placed == [tile_key |-> tile_key, orientation |-> orientation,
                         x |-> x, y |-> y]
          IN  /\ Become(s)
              /\ call' = [op |-> "set_tile",
                          failed_before |-> /\ wfc_instance.ptr # NullPtr
                                            /\ Contradiction(wfc_instance.ptr),
                          eliminated |->
                              /\ ReachesEngine(Self, tile_key, orientation, x, y)
                              /\ TargetElement(Self, tile_key, orientation)
                                     \notin wfc_instance.ptr.wave[TargetCell(Self, x, y)]]
              /\ injected' = IF s.ret = Bool(TRUE)
                             THEN injected \cup {placed} ELSE injected
    /\ UNCHANGED <<inits, tile_data, observations, generated, pair, script, interpreted_result>>

Generate ==
    /\ pc = "idle"
    /\ Become(generate(Self))
    /\ call' = [op |-> "generate"]
    /\ observations' = 0
    /\ generated' = FALSE
    /\ UNCHANGED <<inits, tile_data, injected, pair, script, interpreted_result>>

RunObserve ==
    /\ pc = "observe"
    /\ ObserveStatus(wfc_instance.ptr) = "to_continue"
    /\ Become(run_observe(Self))
    /\ observations' = observations + 1
    /\ UNCHANGED <<call, inits, tile_data, injected, generated, pair, script, interpreted_result>>

RunPropagate ==
    /\ pc = "propagate"
    /\ Become(run_propagate(Self))
    /\ UNCHANGED <<history, pair, script, interpreted_result>>

GenerateReturn ==
    /\ pc = "observe"
    /\ ObserveStatus(wfc_instance.ptr) # "to_continue"
    /\ Become(generate_return(Self))
    /\ generated' = RunResult(wfc_instance.ptr).has_value
    /\ observations' = 0
    /\ UNCHANGED <<call, inits, tile_data, injected, pair, script, interpreted_result>>

SaveResultToImage ==
    /\ pc = "idle"
    /\ Become(save_result_to_image(Self))
    /\ call' = [op |-> "save_result_to_image"]
    /\ UNCHANGED <<inits, tile_data, injected, observations, generated, pair, script, interpreted_result>>

Next ==
    \/ InitializeOverlappingFromArray
    \/ InitializeOverlappingFromPath
    \/ SetPatternFromArray
    \/ SetPatternFromPath
    \/ InitializeTiling
    \/ SetTile
    \/ Generate
    \/ RunObserve
    \/ RunPropagate
    \/ GenerateReturn
    \/ SaveResultToImage

Spec == Init /\ [][Next]_vars

(***************************************************************************)
(* The run of generate() is one sequential loop with no suspension point:  *)
(* from each position of the loop it proceeds to the next one, an          *)
(* observation or the return after "observe", the next observation after   *)
(* "propagate".                                                            *)
(***************************************************************************)
LeaveObserve == pc = "observe" /\ pc' \in {"propagate", "idle"}
LeavePropagate == pc = "propagate" /\ pc' = "observe"

LiveSpec ==
    /\ Init
    /\ [][Next]_vars
    /\ WF_pc(LeaveObserve)
    /\ WF_pc(LeavePropagate)

(***************************************************************************)
(* Two wrappers driven through one script: the same initialize call with   *)
(* the same arguments, then generate().  Each wrapper consults its own     *)
(* get_random_seed().                                                      *)
(***************************************************************************)
Scripts ==
    {[kind |-> "tiling", inp |-> inp, shape |-> shape, seed |-> seed] :
        inp \in TilingInputs, shape \in Shapes, seed \in -1 .. MaxSeed}
    \cup
    {[kind |-> "overlapping", inp |-> inp, shape |-> shape, seed |-> seed] :
        inp \in OverlappingInputs, shape \in Shapes, seed \in -1 .. MaxSeed}

PairInit ==
    /\ current_type = FastWFCWrapper.current_type
    /\ wfc_instance = FastWFCWrapper.wfc_instance
    /\ last_result = FastWFCWrapper.last_result
    /\ tile_keys = FastWFCWrapper.tile_keys
    /\ pc = FastWFCWrapper.pc
    /\ ret = FastWFCWrapper.ret
    /\ call = [op |-> "new"]
    /\ inits = 0
    /\ tile_data = <<>>
    /\ injected = {}
    /\ observations = 0
    /\ generated = FALSE
    /\ pair = [w \in 1 .. 2 |-> [self |-> FastWFCWrapper, position |-> "new"]]
    /\ script \in Scripts
    /\ interpreted_result = Void

Scripted(self, random_seed) ==
    IF script.kind = "tiling"
    THEN initialize_tiling(self, script.inp.tile_data, script.inp.adjacency_rules,
                           script.shape[2], script.shape[1],
                           script.inp.periodic_output, script.seed, random_seed)
    ELSE initialize_overlapping_from_array(
             self, script.inp.color_array,
             OutSize(script.shape[2], script.inp.pattern_size,
                     script.inp.periodic_output),
             OutSize(script.shape[1], script.inp.pattern_size,
                     script.inp.periodic_output),
             script.inp.pattern_size, script.inp.periodic_input,
             script.inp.periodic_output, FALSE, script.inp.symmetry,
             script.seed, random_seed)

PairInitialize(w) ==
    /\ pair[w].position = "new"
    /\ \E random_seed \in RandomSeeds :
          pair' = [pair EXCEPT ![w] = [self |-> Scripted(@.self, random_seed),
                                       position |-> "initialized"]]
    /\ UNCHANGED <<wrapper, history, script, interpreted_result>>

PairGenerate(w) ==
    /\ pair[w].position = "initialized"
    /\ pair' = [pair EXCEPT ![w] =
                   LET s == generate(@.self)
                   IN  [self |-> s,
                        position |-> IF s.pc = "idle" THEN "done" ELSE "running"]]
    /\ UNCHANGED <<wrapper, history, script, interpreted_result>>

PairRunObserve(w) ==
    /\ pair[w].position = "running"
    /\ pair[w].self.pc = "observe"
    /\ ObserveStatus(pair[w].self.wfc_instance.ptr) = "to_continue"
    /\ pair' = [pair EXCEPT ![w].self = run_observe(@)]
    /\ UNCHANGED <<wrapper, history, script, interpreted_result>>

PairRunPropagate(w) ==
    /\ pair[w].position = "running"
    /\ pair[w].self.pc = "propagate"
    /\ pair' = [pair EXCEPT ![w].self = run_propagate(@)]
    /\ UNCHANGED <<wrapper, history, script, interpreted_result>>

PairGenerateReturn(w) ==
    /\ pair[w].position = "running"
    /\ pair[w].self.pc = "observe"
    /\ ObserveStatus(pair[w].self.wfc_instance.ptr) # "to_continue"
    /\ pair' = [pair EXCEPT ![w] = [self |-> generate_return(@.self),
                                    position |-> "done"]]
    /\ UNCHANGED <<wrapper, history, script, interpreted_result>>

PairNext ==
    \E w \in 1 .. 2 :
        \/ PairInitialize(w)
        \/ PairGenerate(w)
        \/ PairRunObserve(w)
        \/ PairRunPropagate(w)
        \/ PairGenerateReturn(w)

PairSpec == PairInit /\ [][PairNext]_vars

(***************************************************************************)
(* A tiling wrapper that only takes set_tile calls after initialize_tiling *)
(* and remembers the arguments of the call before, so that a call          *)
(* repeating its predecessor is told apart.                                *)
(***************************************************************************)
InjectSetTile ==
    /\ pc = "idle"
    /\ \E tile_key \in TileKeyInputs, orientation \in OrientationInputs,
          x \in Rows, y \in Columns :
          LET s == set_tile(Self, tile_key, orientation, x, y)
              placed == [tile_key |-> tile_key, orientation |-> orientation,
                         x |-> x, y |-> y]
          IN  /\ Become(s)
              /\ call' = [op |-> "set_tile",
                          target |-> placed,
                          repeated |-> /\ call.op = "set_tile"
                                       /\ call.target = placed]
              /\ injected' = IF s.ret = Bool(TRUE)
                             THEN injected \cup {placed} ELSE injected
    /\ UNCHANGED <<inits, tile_data, observations, generated, pair, script, interpreted_result>>

InjectNext ==
    \/ InitializeTiling
    \/ InjectSetTile

InjectSpec == Init /\ [][InjectNext]_vars

(***************************************************************************)
(* A wrapper that is only handed tile sets: one or two tiles of every      *)
(* symmetry name the demo documents, with no rule or one rule between two  *)
(* realizable orientations.                                                *)
(***************************************************************************)
SymmetryNames == {"X", "I", "backslash", "T", "L", "P"}

SymmetryTileData ==
    {<<TileEntry("a", s, 1, Block("a"))>> : s \in SymmetryNames}
    \cup {<<TileEntry("a", sa, 1, Block("a")), TileEntry("b", sb, 1, Block("b"))>> :
            sa \in SymmetryNames, sb \in SymmetryNames}

\* The rules between two realizable orientations of the tiles of data.
OrientedRules(data) ==
    {Rule(data[t1].key, o1, data[t2].key, o2) :
        <<t1, o1, t2, o2>> \in
            {q \in (DOMAIN data) \X (0 .. 7) \X (DOMAIN data) \X (0 .. 7) :
                /\ q[2] < NbOrientations(data[q[1]].symmetry)
                /\ q[4] < NbOrientations(data[q[3]].symmetry)}}

CompileTiling ==
    /\ pc = "idle"
    /\ inits < 1
    /\ \E data \in SymmetryTileData :
          \E adjacency_rules \in {<<>>} \cup {<<r>> : r \in OrientedRules(data)} :
             /\ Become(initialize_tiling(Self, data, adjacency_rules,
                                         2, 1, FALSE, 0, 0))
             /\ call' = [op |-> "initialize_tiling",
                         adjacency_rules |-> adjacency_rules,
                         printed |-> initialize_tiling_printed(
                                         data, adjacency_rules)]
             /\ tile_data' = data
    /\ inits' = inits + 1
    /\ injected' = {}
    /\ UNCHANGED <<observations, generated, pair, script, interpreted_result>>

CompileNext == CompileTiling

CompileSpec == Init /\ [][CompileNext]_vars

(***************************************************************************)
(* The reading of one marker block: the marker content of a tile, put in   *)
(* an orientation of the convention, is handed to interpret_tilemap_output *)
(* as a result of one tile.                                                *)
(***************************************************************************)
SourceIds == 0 .. MaxSourceId

DetectOrientation ==
    /\ pc = "idle"
    /\ \E tile_id \in SourceIds, orientation \in 0 .. 7 :
          LET result == OrientedContent(TileArray(MarkerContent(tile_id)),
                                        orientation).rows
          IN  /\ interpreted_result' = interpret_tilemap_output(result)
              /\ call' = [op |-> "_detect_orientation",
                          tile_id |-> tile_id,
                          orientation |-> orientation,
                          tile_3x3 |-> result]
    /\ UNCHANGED <<wrapper, inits, tile_data, injected, observations, generated,
                   pair, script>>

DetectNext == DetectOrientation

DetectSpec == Init /\ [][DetectNext]_vars

(***************************************************************************)
(* The demo's use of marker tiles: initialize_tiling with tiles of marker  *)
(* content, generate(), and, when the result is not empty,                 *)
(* interpret_tilemap_output on it.                                         *)
(***************************************************************************)
MarkerInputs ==
    {[tile_data |-> <<TileEntry("bend", "L", 1, MarkerContent(0)),
                      TileEntry("corridor", "I", 1, MarkerContent(2))>>,
      periodic_output |-> FALSE,
      adjacency_rules |-> <<Rule("bend", 0, "corridor", 0),
                            Rule("corridor", 1, "corridor", 1)>>],
     [tile_data |-> <<TileEntry("turn", "P", 1, MarkerContent(6))>>,
      periodic_output |-> FALSE,
      adjacency_rules |-> <<Rule("turn", 0, "turn", 4)>>],
     [tile_data |-> <<TileEntry("empty", "X", 2, MarkerContent(8)),
                      TileEntry("t", "T", 1, MarkerContent(5))>>,
      periodic_output |-> TRUE,
      adjacency_rules |-> <<Rule("empty", 0, "empty", 0),
                            Rule("t", 0, "empty", 0)>>]}

InitializeMarkerTiling ==
    /\ pc = "idle"
    /\ inits < MaxInit
    /\ \E inp \in MarkerInputs, shape \in Shapes, seeds \in SeedInputs :
          /\ Become(initialize_tiling(Self, inp.tile_data, inp.adjacency_rules,
                                      shape[2], shape[1], inp.periodic_output,
                                      seeds[1], seeds[2]))
          /\ call' = [op |-> "initialize_tiling",
                      adjacency_rules |-> inp.adjacency_rules,
                      printed |-> initialize_tiling_printed(
                                      inp.tile_data, inp.adjacency_rules)]
          /\ tile_data' = inp.tile_data
    /\ inits' = inits + 1
    /\ injected' = {}
    /\ UNCHANGED <<observations, generated, pair, script, interpreted_result>>

InterpretTilemapOutput ==
    /\ pc = "idle"
    /\ call.op = "generate"
    /\ ret.type = "Array"
    /\ Len(ret.value) > 0
    /\ interpreted_result' = interpret_tilemap_output(id_to_tiling(ret.value))
    /\ call' = [op |-> "interpret_tilemap_output"]
    /\ UNCHANGED <<wrapper, inits, tile_data, injected, observations, generated,
                   pair, script>>

MarkerNext ==
    \/ InitializeMarkerTiling
    \/ Generate
    \/ RunObserve
    \/ RunPropagate
    \/ GenerateReturn
    \/ InterpretTilemapOutput

MarkerSpec == Init /\ [][MarkerNext]_vars

(***************************************************************************)
(* The worked example of the tiling variant: an asymmetric tile "wall", a  *)
(* fully symmetric tile "empty", the one rule empty - empty, a grid three  *)
(* cells wide and one high, under every seed of a range.                   *)
(***************************************************************************)
ExampleSeeds == 0 .. MaxExampleSeed

ExampleTiles ==
    <<TileEntry("wall", "P", 1, Block("wall")),
      TileEntry("empty", "X", 1, Block("empty"))>>

ExampleRules == <<Rule("empty", 0, "empty", 0)>>

InitializeExample ==
    /\ pc = "idle"
    /\ inits < 1
    /\ \E seed \in ExampleSeeds :
          Become(initialize_tiling(Self, ExampleTiles, ExampleRules,
                                   3, 1, FALSE, seed, 0))
    /\ call' = [op |-> "initialize_tiling",
                adjacency_rules |-> ExampleRules,
                printed |-> initialize_tiling_printed(ExampleTiles, ExampleRules)]
    /\ tile_data' = ExampleTiles
    /\ inits' = inits + 1
    /\ injected' = {}
    /\ UNCHANGED <<observations, generated, pair, script, interpreted_result>>

ExampleNext ==
    \/ InitializeExample
    \/ Generate
    \/ RunObserve
    \/ RunPropagate
    \/ GenerateReturn

ExampleSpec == Init /\ [][ExampleNext]_vars

(***************************************************************************)
(* A wrapper configured for either variant that takes injection calls of   *)
(* both kinds, the arguments of a set_tile call remembered.                *)
(***************************************************************************)
GuardNext ==
    \/ InitializeOverlappingFromArray
    \/ InitializeTiling
    \/ InjectSetTile
    \/ SetPatternFromArray
    \/ SetPatternFromPath

GuardSpec == Init /\ [][GuardNext]_vars

(***************************************************************************)
(* Pattern extraction on its own: one initialize_overlapping_from_array    *)
(* call on a two-row sample of two colours, for every pattern size,        *)
(* symmetry count and input periodicity.                                   *)
(***************************************************************************)
SampleColors == {0, 2}
Samples ==
    {<<VArray(r1), VArray(r2)>> : r1, r2 \in [1 .. 2 -> SampleColors]}
        \cup {<<VArray(r1), VArray(r2)>> : r1, r2 \in [1 .. 3 -> SampleColors]}

InitializeOverlappingSample ==
    /\ pc = "idle"
    /\ inits < 1
    /\ \E color_array \in Samples, pattern_size \in 1 .. 2,
          periodic_input \in BOOLEAN, symmetry \in 1 .. 8 :
          LET s == initialize_overlapping_from_array(
                       Self, color_array, pattern_size + 1, pattern_size + 1,
                       pattern_size, periodic_input, FALSE, FALSE, symmetry,
                       0, 0)
          IN  /\ Become(s)
              /\ call' = [op |-> "initialize_overlapping_from_array",
                          sample |-> godot_color_array_to_array2d(color_array)]
    /\ inits' = inits + 1
    /\ injected' = {}
    /\ UNCHANGED <<tile_data, observations, generated, pair, script,
                   interpreted_result>>

PatternNext == InitializeOverlappingSample

PatternSpec == Init /\ [][PatternNext]_vars

(***************************************************************************)
(* FastWFC.gd, tilemap extraction, and the demo's _display_result.  A      *)
(* tilemap layer is the set of its used cells, each with its coordinates,  *)
(* its source id and its transform flags; every cell has atlas coordinates *)
(* (0, 0), as _display_result sets them, so a tile's key is its source id. *)
(* A GDScript Dictionary keyed by coordinates or by tile key is the set of *)
(* its values, and an Array of rules the set of its members.               *)
(***************************************************************************)
FLIP_H == 4096
FLIP_V == 8192
TRANSPOSE == 16384

orientation_flags ==
    <<0, TRANSPOSE + FLIP_H, FLIP_H + FLIP_V, TRANSPOSE + FLIP_V,
      FLIP_V, TRANSPOSE, FLIP_H, TRANSPOSE + FLIP_H + FLIP_V>>

\* result_array[y][x] is the pair <<source_id, orientation_id>>.
_display_result(result_array) ==
    UNION {{[coords |-> <<x - 1, y - 1>>,
             source_id |-> result_array[y][x][1],
             transform_flags |-> orientation_flags[result_array[y][x][2] + 1]] :
                x \in DOMAIN result_array[y]} : y \in DOMAIN result_array}

\* is_cell_flipped_h, is_cell_flipped_v, is_cell_transposed: one bit of the
\* transform flags each.
is_cell_flipped_h(cell) == (cell.transform_flags \div FLIP_H) % 2 = 1
is_cell_flipped_v(cell) == (cell.transform_flags \div FLIP_V) % 2 = 1
is_cell_transposed(cell) == (cell.transform_flags \div TRANSPOSE) % 2 = 1

_get_rotation_from_transforms(flipped_h, flipped_v, transposed) ==
    IF transposed /\ flipped_h /\ ~flipped_v THEN 90
    ELSE IF flipped_h /\ flipped_v /\ ~transposed THEN 180
    ELSE IF transposed /\ flipped_v /\ ~flipped_h THEN 270
    ELSE 0

\* The last case prints a warning and answers 0.
_get_orientation_index(rotation_degrees) ==
    CASE rotation_degrees = 0 -> 0
      [] rotation_degrees = 90 -> 1
      [] rotation_degrees = 180 -> 2
      [] rotation_degrees = 270 -> 3
      [] rotation_degrees = 360 -> 0
      [] rotation_degrees = 450 -> 1
      [] OTHER -> 0

_get_tile_data_dict(tile_map_layer) ==
    [tiles |-> {[coords |-> cell.coords,
                 source_id |-> cell.source_id,
                 rotation_degrees |->
                     _get_rotation_from_transforms(is_cell_flipped_h(cell),
                                                   is_cell_flipped_v(cell),
                                                   is_cell_transposed(cell))] :
                    cell \in tile_map_layer},
     source_id_counts |->
         [id \in {cell.source_id : cell \in tile_map_layer} |->
             Cardinality({cell \in tile_map_layer : cell.source_id = id})]]

\* Right and down, and the adjustment added to both rotations of a rule.
directions == <<<<1, 0>>, <<0, 1>>>>
adjustments == <<0, 270>>

_extract_adjacency_rules(tiles_data) ==
    {[tile1 |-> [source_id |-> tile.source_id,
                 rotation_degrees |->
                     tile.rotation_degrees + adjustments[dir_idx + 1]],
      tile2 |-> [source_id |-> neighbor_tile.source_id,
                 rotation_degrees |->
                     neighbor_tile.rotation_degrees + adjustments[dir_idx + 1]],
      direction |-> dir_idx] :
        <<tile, neighbor_tile, dir_idx>> \in
            {v \in tiles_data \X tiles_data \X (0 .. 1) :
                /\ v[2].coords[1] = v[1].coords[1] + directions[v[3] + 1][1]
                /\ v[2].coords[2] = v[1].coords[2] + directions[v[3] + 1][2]}}

\* The symmetry _convert_to_wfc_format reads off the rotations seen.
ObservedSymmetry(rotations) ==
    CASE Cardinality(rotations) = 1 -> "X"
      [] Cardinality(rotations) = 2 ->
            IF rotations = {0, 180} \/ rotations = {90, 270} THEN "I"
            ELSE "backslash"
      [] Cardinality(rotations) = 4 -> "L"
      [] Cardinality(rotations) > 4 -> "P"
      [] OTHER -> "X"

\* Called on the tiles without their metadata: the counts it looks up are
\* absent, so every weight is 0.1 + 9.9 * 1 / 1, held here as the fraction
\* 100 / 10.
_convert_to_wfc_format(tiles_data) ==
    [tiles |->
        {[source_id |-> id,
          possible_rotations |->
              {tile.rotation_degrees : tile \in {u \in tiles_data : u.source_id = id}},
          symmetry |->
              ObservedSymmetry({tile.rotation_degrees :
                                   tile \in {u \in tiles_data : u.source_id = id}}),
          weight |-> [num |-> 100, den |-> 10]] :
            id \in {tile.source_id : tile \in tiles_data}},
     neighbors |->
        {[tile1 |-> rule.tile1.source_id,
          orientation1 |-> _get_orientation_index(rule.tile1.rotation_degrees),
          tile2 |-> rule.tile2.source_id,
          orientation2 |-> _get_orientation_index(rule.tile2.rotation_degrees),
          direction |-> rule.direction] :
            rule \in _extract_adjacency_rules(tiles_data)}]

\* symmetry_rules is a function from some source ids to symmetry names.  A
\* weight 0.1 + 9.9 * count / total is held as a fraction.
create_tilemap_data(tile_map_layer, symmetry_rules) ==
    LET tiles_data == _get_tile_data_dict(tile_map_layer)
        source_id_counts == tiles_data.source_id_counts
        total_tiles == Cardinality(tile_map_layer)
        wfc_format == _convert_to_wfc_format(tiles_data.tiles)
    IN  [tile_data |->
            {[key |-> tile_info.source_id,
              content |-> MarkerContent(tile_info.source_id),
              symmetry |-> IF tile_info.source_id \in DOMAIN symmetry_rules
                           THEN symmetry_rules[tile_info.source_id]
                           ELSE "X",
              weight |-> IF total_tiles > 0
                            /\ tile_info.source_id \in DOMAIN source_id_counts
                         THEN [num |-> total_tiles
                                          + 99 * source_id_counts[tile_info.source_id],
                               den |-> 10 * total_tiles]
                         ELSE [num |-> 1, den |-> 1]] :
                tile_info \in wfc_format.tiles},
         adjacency_rules |->
            {[tile1 |-> rule.tile1, orientation1 |-> rule.orientation1,
              tile2 |-> rule.tile2, orientation2 |-> rule.orientation2] :
                rule \in wfc_format.neighbors}]

(***************************************************************************)
(* Tilemaps of two adjacent cells: painted by hand with any transform      *)
(* flags, or written by _display_result from a result of two cells; then   *)
(* read by create_tilemap_data.                                            *)
(***************************************************************************)
TwoCellCoords == {<<<<0, 0>>, <<1, 0>>>>, <<<<0, 0>>, <<0, 1>>>>}
TransformFlags ==
    {h + v + tr : h \in {0, FLIP_H}, v \in {0, FLIP_V}, tr \in {0, TRANSPOSE}}
ResultArrays ==
    {<<<<c1, c2>>>> : c1, c2 \in (0 .. 1) \X (0 .. 7)}
        \cup {<<<<c1>>, <<c2>>>> : c1, c2 \in (0 .. 1) \X (0 .. 7)}
DemoSymmetryRules == [id \in {0} |-> "L"]

PaintTilemap ==
    /\ pc = "idle"
    /\ call.op = "new"
    /\ \E at \in TwoCellCoords, id1, id2 \in 0 .. 1, f1, f2 \in TransformFlags :
          call' = [op |-> "set_cell",
                   tile_map_layer |->
                       {[coords |-> at[1], source_id |-> id1, transform_flags |-> f1],
                        [coords |-> at[2], source_id |-> id2, transform_flags |-> f2]}]
    /\ UNCHANGED <<wrapper, inits, tile_data, injected, observations, generated,
                   pair, script, interpreted_result>>

DisplayResult ==
    /\ pc = "idle"
    /\ call.op = "new"
    /\ \E result_array \in ResultArrays :
          call' = [op |-> "_display_result",
                   result_array |-> result_array,
                   tile_map_layer |-> _display_result(result_array)]
    /\ UNCHANGED <<wrapper, inits, tile_data, injected, observations, generated,
                   pair, script, interpreted_result>>

CreateTilemapData ==
    /\ pc = "idle"
    /\ call.op \in {"set_cell", "_display_result"}
    /\ interpreted_result = Void
    /\ interpreted_result' =
          [type |-> "Dictionary",
           value |-> create_tilemap_data(call.tile_map_layer, DemoSymmetryRules)]
    /\ UNCHANGED <<wrapper, call, inits, tile_data, injected, observations,
                   generated, pair, script>>

TilemapNext == PaintTilemap \/ DisplayResult \/ CreateTilemapData

TilemapSpec == Init /\ [][TilemapNext]_vars

(***************************************************************************)
(* Vocabulary of the properties.                                           *)
(***************************************************************************)
Engine == wfc_instance.ptr
HasEngine == wfc_instance.ptr # NullPtr
Returned(op) == pc = "idle" /\ call.op = op
GridReturned == Returned("generate") /\ ret.value # <<>>

\* Every pair of neighbouring cells holds only elements the table allows.
AdjacentCompatible(eng) ==
    \A c \in DOMAIN eng.wave, d \in Directions :
        Neighbour(eng, c, d) # 0 =>
            \A e1 \in eng.wave[c], e2 \in eng.wave[Neighbour(eng, c, d)] :
                <<e1, d, e2>> \in eng.compat

\* The payload the caller gave for a tile key.
KeyContent(key) ==
    LET at == {i \in DOMAIN tile_data : tile_data[i].key = key}
        i == CHOOSE k \in at : TRUE
    IN  IF at # {} /\ ValidContent(tile_data[i].content)
        THEN TileArray(tile_data[i].content)
        ELSE [height |-> 0, width |-> 0, rows |-> <<>>]

PlacedCell(p) == CellIndex(p.x, p.y, Engine.width)
PlacedElement(p) ==
    OrientedTileId(Engine.tiles, find_tile_id(tile_keys, p.tile_key), p.orientation)

\* Two accepted injections sit on neighbouring cells with elements the table
\* forbids in that direction.
ConflictingInjections ==
    \E p \in injected, q \in injected, d \in Directions :
        /\ PlacedCell(p) # PlacedCell(q)
        /\ Neighbour(Engine, PlacedCell(p), d) = PlacedCell(q)
        /\ <<PlacedElement(p), d, PlacedElement(q)>> \notin Engine.compat

(***************************************************************************)
(* C1: whenever generate() returns a grid, every pair of horizontally or   *)
(* vertically adjacent cells holds elements the compatibility table allows *)
(* in that direction.                                                      *)
(***************************************************************************)
C1_SolvedGridCompatible ==
    GridReturned => AdjacentCompatible(Engine)

(***************************************************************************)
(* C2: generate() returns a non-empty grid only when every cell of the     *)
(* wave is collapsed to one element, and then the grid has the full        *)
(* requested shape; a run that ends in a contradiction returns the empty   *)
(* Array.                                                                  *)
(***************************************************************************)
C2_GridOnlyWhenSolved ==
    Returned("generate") =>
        /\ ret.type = "Array"
        /\ ret.value # <<>> =>
              /\ HasEngine
              /\ \A c \in DOMAIN Engine.wave : Cardinality(Engine.wave[c]) = 1
              /\ Len(ret.value) = RunResult(Engine).value.height
              /\ \A y \in DOMAIN ret.value :
                     Len(ret.value[y].items) = RunResult(Engine).value.width
        /\ (HasEngine /\ Contradiction(Engine)) => ret.value = <<>>

C2_FailedRunAfterSuccess ==
    /\ Returned("generate")
    /\ HasEngine
    /\ Contradiction(Engine)
    /\ ret = GodotArray(<<>>)
    /\ last_result.opt.has_value

(***************************************************************************)
(* C3: save_result_to_image returns true only if the most recent           *)
(* generate() call succeeded.                                              *)
(***************************************************************************)
C3_SaveOnlyAfterSuccess ==
    (Returned("save_result_to_image") /\ ret = Bool(TRUE)) => generated

(***************************************************************************)
(* C4: generate() on a wrapper that holds no engine instance returns the   *)
(* empty Array and leaves the engine instance, the last result, the        *)
(* current type and the tile keys as they were.                            *)
(***************************************************************************)
C4_GenerateWithoutEngine ==
    [][(pc = "idle" /\ ~HasEngine /\ call'.op = "generate") =>
          /\ ret' = GodotArray(<<>>)
          /\ pc' = "idle"
          /\ UNCHANGED <<wfc_instance, last_result, current_type, tile_keys>>]_vars

C4_RejectedThenGenerate ==
    /\ Returned("generate")
    /\ ~HasEngine
    /\ inits > 0
    /\ ret = GodotArray(<<>>)

(***************************************************************************)
(* C5: set_pattern_from_array with a non-empty pattern on a wrapper that   *)
(* holds no engine returns false, without dereferencing the null instance. *)
(***************************************************************************)
C5_SetPatternWithoutEngine ==
    (call.op = "set_pattern_from_array" /\ call.engineless) =>
        (pc = "idle" /\ ret = Bool(FALSE))

(***************************************************************************)
(* C6: a run of generate() always ends (in a solved or a failed grid);     *)
(* while it runs no domain gains an element, every observation collapses   *)
(* exactly one undetermined cell, and the observations of one run never    *)
(* outnumber the cells.                                                    *)
(***************************************************************************)
Running == pc \in {"observe", "propagate"}

DomainsShrink ==
    Running =>
        /\ DOMAIN wfc_instance'.ptr.wave = DOMAIN Engine.wave
        /\ \A c \in DOMAIN Engine.wave : wfc_instance'.ptr.wave[c] \subseteq Engine.wave[c]

OneCollapse ==
    (pc = "observe" /\ pc' = "propagate") =>
        /\ observations' = observations + 1
        /\ \E c \in DOMAIN Engine.wave :
              /\ Cardinality(Engine.wave[c]) > 1
              /\ Cardinality(wfc_instance'.ptr.wave[c]) = 1
              /\ \A o \in DOMAIN Engine.wave \ {c} :
                     wfc_instance'.ptr.wave[o] = Engine.wave[o]

C6_RunTerminates ==
    /\ [][DomainsShrink /\ OneCollapse]_vars
    /\ [](Running => observations <= Cardinality(DOMAIN Engine.wave))
    /\ (Running ~> (pc = "idle" /\ (generated \/ (HasEngine /\ Contradiction(Engine)))))

C6_EveryCellObserved ==
    /\ pc = "observe"
    /\ Cardinality(DOMAIN Engine.wave) > 1
    /\ observations = Cardinality(DOMAIN Engine.wave)
    /\ ObserveStatus(Engine) = "success"

(***************************************************************************)
(* C7: two wrappers initialised with identical inputs and the same seed    *)
(* argument hand the same seed to the engine and return identical          *)
(* generate() results.  As claimed this covers every integer seed; it      *)
(* holds for every seed argument other than -1, which stands for "pick a   *)
(* random seed".                                                           *)
(***************************************************************************)
BothDone == \A w \in 1 .. 2 : pair[w].position = "done"

SameRun ==
    /\ pair[1].self.wfc_instance = pair[2].self.wfc_instance
    /\ pair[1].self.ret = pair[2].self.ret

C7_AnySeedSameResult ==
    BothDone => SameRun

C7_ExplicitSeedSameResult ==
    (BothDone /\ script.seed # -1) => SameRun

C7_TwoEqualGrids ==
    /\ BothDone
    /\ script.seed # -1
    /\ pair[1].self.wfc_instance.ptr # NullPtr
    /\ pair[1].self.wfc_instance.ptr.seed = script.seed
    /\ Cardinality(DOMAIN pair[1].self.wfc_instance.ptr.wave) > 1
    /\ pair[1].self.ret.value # <<>>
    /\ pair[2].self.ret = pair[1].self.ret

(***************************************************************************)
(* C8: when set_tile(key, orientation, x, y) returned true and the         *)
(* following generate() returns a grid, the cell in row x, column y of the *)
(* grid holds the tile given under that key, in that orientation.          *)
(***************************************************************************)
C8_SetTileHonoured ==
    (GridReturned /\ wfc_instance.alt = "tiling") =>
        \A p \in injected :
            /\ ret.value[p.x + 1].items[p.y + 1].content = KeyContent(p.tile_key)
            /\ ret.value[p.x + 1].items[p.y + 1].orientation = p.orientation

(***************************************************************************)
(* C9: when two accepted injections put, on adjacent cells, elements the   *)
(* compatibility table forbids as neighbours in that direction, the        *)
(* following generate() returns no grid.                                   *)
(***************************************************************************)
C9_ConflictingInjectionsNoGrid ==
    (Returned("generate") /\ HasEngine /\ wfc_instance.alt = "tiling"
        /\ ConflictingInjections) => ret.value = <<>>

(***************************************************************************)
(* C10: a set_tile call whose target element is no longer in the target    *)
(* cell's domain returns false itself.                                     *)
(***************************************************************************)
C10_EliminatedTargetRefused ==
    (Returned("set_tile") /\ call.eliminated) => ret = Bool(FALSE)

C10_RefusedAfterNarrowing ==
    /\ Returned("set_tile")
    /\ call.eliminated
    /\ ~call.failed_before
    /\ injected # {}
    /\ ret = Bool(FALSE)

(***************************************************************************)
(* C11: a set_tile call that repeats the call just before it, with the     *)
(* same key, orientation and location, leaves every domain of the wave as  *)
(* the first call left it and returns the same status.                     *)
(***************************************************************************)
C11_InjectionIdempotent ==
    [][(call.op = "set_tile" /\ call'.op = "set_tile" /\ call'.repeated) =>
          /\ wfc_instance' = wfc_instance
          /\ ret' = ret]_vars

C11_SameTileTwice ==
    /\ Returned("set_tile")
    /\ call.repeated
    /\ ret = Bool(TRUE)
    /\ Cardinality(DOMAIN Engine.wave) > 1
    /\ Len(Engine.catalog) > 1
    /\ \A c \in DOMAIN Engine.wave : Cardinality(Engine.wave[c]) = 1

(***************************************************************************)
(* C12: initialize_overlapping_from_array with an empty sample array, or   *)
(* one whose first row is not an array, leaves the engine instance and the *)
(* last result as they were: no engine is created or replaced.             *)
(***************************************************************************)
C12_MalformedSampleRejected ==
    [][(inits' # inits /\ call'.op = "initialize_overlapping_from_array"
          /\ call'.malformed) =>
          UNCHANGED <<wfc_instance, last_result>>]_vars

C12_RejectedWithEngineKept ==
    /\ Returned("initialize_overlapping_from_array")
    /\ call.malformed
    /\ HasEngine
    /\ last_result.opt.has_value

(***************************************************************************)
(* C13: initialize_overlapping_from_array with periodic_input false and a  *)
(* pattern_size greater than the height or the width of the sample creates *)
(* no engine: the engine instance stays as it was.                         *)
(***************************************************************************)
C13_OversizedPatternRejected ==
    [][(inits' # inits /\ call'.op = "initialize_overlapping_from_array"
          /\ call'.oversized /\ ~call'.malformed) =>
          UNCHANGED wfc_instance]_vars

(***************************************************************************)
(* The rules of the last initialize_tiling call whose two tile names are   *)
(* keys of its tile_data, in the order given, and the rules it dropped.    *)
(***************************************************************************)
KnownKeys == {tile_data[k].key : k \in DOMAIN tile_data}

KnownRules ==
    LET Known(rule) == rule.tile1 \in KnownKeys /\ rule.tile2 \in KnownKeys
    IN  SelectSeq(call.adjacency_rules, Known)

DroppedRules == Len(call.adjacency_rules) - Len(KnownRules)

KeyOfId(id) ==
    CHOOSE key \in KnownKeys :
        \E k \in DOMAIN tile_keys : tile_keys[k] = <<key, id>>

(***************************************************************************)
(* C14: initialize_tiling is not aborted by a rule naming a tile absent    *)
(* from tile_data: the engine is built, and it receives exactly the rules  *)
(* whose two tile names are known, in the original order, each with its    *)
(* two tiles and its two orientations unchanged.                           *)
(***************************************************************************)
C14_KnownRulesForwarded ==
    Returned("initialize_tiling") =>
        /\ HasEngine
        /\ Len(Engine.neighbors) = Len(KnownRules)
        /\ \A i \in DOMAIN KnownRules :
              /\ KeyOfId(Engine.neighbors[i][1]) = KnownRules[i].tile1
              /\ Engine.neighbors[i][2] = KnownRules[i].orientation1
              /\ KeyOfId(Engine.neighbors[i][3]) = KnownRules[i].tile2
              /\ Engine.neighbors[i][4] = KnownRules[i].orientation2

C14_RuleDroppedOthersKept ==
    /\ Returned("initialize_tiling")
    /\ HasEngine
    /\ DroppedRules = 1
    /\ \E i, j \in DOMAIN call.adjacency_rules :
          /\ i < j
          /\ call.adjacency_rules[i].tile1 \notin KnownKeys
          /\ call.adjacency_rules[j].tile1 \in KnownKeys
          /\ call.adjacency_rules[j].tile2 \in KnownKeys
    /\ Len(Engine.neighbors) = Len(call.adjacency_rules) - 1

(***************************************************************************)
(* C15: initialize_tiling prints one message for every rule it drops for   *)
(* an unknown tile name: as many messages as dropped rules.                *)
(***************************************************************************)
C15_DroppedRulesReported ==
    Returned("initialize_tiling") => Len(call.printed) = DroppedRules

(***************************************************************************)
(* C16: each tile contributes to the element catalog exactly as many       *)
(* (tile, orientation) entries as its symmetry name prescribes (X 1, I 2,  *)
(* backslash 2, T 4, L 4, P 8), its orientations being 0 .. count - 1, and *)
(* no two catalog indices stand for the same (tile, orientation).          *)
(***************************************************************************)
PrescribedOrientations ==
    [X |-> 1, I |-> 2, backslash |-> 2, T |-> 4, L |-> 4, P |-> 8]

EntriesOfTile(t) == {e \in DOMAIN Engine.catalog : Engine.catalog[e].tile = t}

C16_OrientationsPerSymmetry ==
    (Returned("initialize_tiling") /\ HasEngine) =>
        /\ \A t \in DOMAIN tile_data :
              /\ Cardinality(EntriesOfTile(t - 1))
                    = PrescribedOrientations[tile_data[t].symmetry]
              /\ {Engine.catalog[e].orientation : e \in EntriesOfTile(t - 1)}
                    = 0 .. PrescribedOrientations[tile_data[t].symmetry] - 1
              /\ \A e \in EntriesOfTile(t - 1) :
                    OrientedTileId(Engine.tiles, t - 1,
                                   Engine.catalog[e].orientation) = e
        /\ \A e1, e2 \in DOMAIN Engine.catalog :
              (/\ Engine.catalog[e1].tile = Engine.catalog[e2].tile
               /\ Engine.catalog[e1].orientation = Engine.catalog[e2].orientation)
                  => e1 = e2
        /\ UNION {EntriesOfTile(t - 1) : t \in DOMAIN tile_data}
              = DOMAIN Engine.catalog

\* An asymmetric tile and a diagonal tile make a catalog of ten elements.
C16_AsymmetricAndDiagonal ==
    /\ Returned("initialize_tiling") /\ HasEngine
    /\ Len(tile_data) = 2
    /\ tile_data[1].symmetry = "P"
    /\ tile_data[2].symmetry = "backslash"
    /\ Len(Engine.catalog) = 10
    /\ Cardinality(EntriesOfTile(1)) = 2

(***************************************************************************)
(* C17: for every authored rule the engine received, the table holds the   *)
(* entry of the rule, of its three quarter turns and of the mirror images  *)
(* of those four (eight entries, fewer where symmetric orientations        *)
(* coincide); the table is closed under the quarter turn and the mirror;   *)
(* and every entry of the table is one of those derived from a rule, or    *)
(* the inversion of one (closed world).                                    *)
(***************************************************************************)
\* The direction a direction becomes under a clockwise quarter turn (up to
\* right, right to down, down to left, left to up) and under the mirror.
TurnedDirection(d) == <<2, 0, 3, 1>>[d + 1]
MirroredDirection(d) == <<0, 2, 1, 3>>[d + 1]

TurnedElement(e) ==
    LET tile == Engine.catalog[e].tile
    IN  OrientedTileId(Engine.tiles, tile,
            RotationMap(Engine.tiles[tile + 1].symmetry)[
                Engine.catalog[e].orientation + 1])
MirroredElement(e) ==
    LET tile == Engine.catalog[e].tile
    IN  OrientedTileId(Engine.tiles, tile,
            ReflectionMap(Engine.tiles[tile + 1].symmetry)[
                Engine.catalog[e].orientation + 1])

TurnedEntry(en) ==
    <<TurnedElement(en[1]), TurnedDirection(en[2]), TurnedElement(en[3])>>
MirroredEntry(en) ==
    <<MirroredElement(en[1]), MirroredDirection(en[2]), MirroredElement(en[3])>>
InvertedEntry(en) == <<en[3], OppositeDirection(en[2]), en[1]>>

\* The entry an authored rule states: tile2 to the right of tile1.
AuthoredEntry(rule) ==
    <<OrientedTileId(Engine.tiles, rule[1], rule[2]), 2,
      OrientedTileId(Engine.tiles, rule[3], rule[4])>>

FourTurns(en) ==
    {en, TurnedEntry(en), TurnedEntry(TurnedEntry(en)),
     TurnedEntry(TurnedEntry(TurnedEntry(en)))}
DerivedEntries(rule) ==
    FourTurns(AuthoredEntry(rule)) \cup FourTurns(MirroredEntry(AuthoredEntry(rule)))

ForwardedRules == {Engine.neighbors[k] : k \in DOMAIN Engine.neighbors}

C17_OrientationClosure ==
    (Returned("initialize_tiling") /\ HasEngine) =>
        /\ \A rule \in ForwardedRules : DerivedEntries(rule) \subseteq Engine.compat
        /\ \A en \in Engine.compat :
              /\ TurnedEntry(en) \in Engine.compat
              /\ MirroredEntry(en) \in Engine.compat
              /\ \E rule \in ForwardedRules :
                    \/ en \in DerivedEntries(rule)
                    \/ InvertedEntry(en) \in DerivedEntries(rule)

\* A rule whose eight derived entries are distinct and all in the table,
\* which leaves some (element, direction, element) out.
C17_EightDerivedEntries ==
    /\ Returned("initialize_tiling") /\ HasEngine
    /\ \E rule \in ForwardedRules :
          /\ Cardinality(DerivedEntries(rule)) = 8
          /\ DerivedEntries(rule) \subseteq Engine.compat
    /\ \E e1, e2 \in DOMAIN Engine.catalog, d \in Directions :
          <<e1, d, e2>> \notin Engine.compat

(***************************************************************************)
(* C18: in the table of the engine the wrapper holds, B may be the         *)
(* neighbour of A in direction d exactly when A may be the neighbour of B  *)
(* in the opposite direction; and as long as the wrapper holds the same    *)
(* engine, no call and no step of a run changes the table or the catalog.  *)
(***************************************************************************)
TableSymmetric ==
    \A a, b \in DOMAIN Engine.catalog, d \in Directions :
        (<<a, d, b>> \in Engine.compat)
            <=> (<<b, OppositeDirection(d), a>> \in Engine.compat)

TableKept ==
    (HasEngine /\ HasEngine' /\ inits' = inits) =>
        /\ wfc_instance'.ptr.compat = Engine.compat
        /\ wfc_instance'.ptr.catalog = Engine.catalog

C18_TableSymmetricAndFixed ==
    /\ [](HasEngine => TableSymmetric)
    /\ [][TableKept]_vars

\* A grid has been returned by an engine whose table allows some pairs and
\* not others, after an injection into it.
C18_TableAfterInjectionAndRun ==
    /\ GridReturned /\ HasEngine
    /\ injected # {}
    /\ Engine.compat # {}
    /\ \E a, b \in DOMAIN Engine.catalog, d \in Directions :
          /\ <<a, d, b>> \notin Engine.compat
          /\ <<b, OppositeDirection(d), a>> \notin Engine.compat

(***************************************************************************)
(* C19: the marker block of a tile put in orientation k of the convention  *)
(* is read back by _detect_orientation as k, for every k in 0 .. 7; the    *)
(* eight orientations of the block have pairwise distinct corners; and the *)
(* centre read back is the tile's identifier.                              *)
(***************************************************************************)
Corners(tile_3x3) ==
    <<tile_3x3[1][1], tile_3x3[1][3], tile_3x3[3][1], tile_3x3[3][3]>>

MarkerCorners(tile_id, k) ==
    Corners(OrientedContent(TileArray(MarkerContent(tile_id)), k).rows)

MarkerIds == {tile_data[t].content.items[2].items[2] : t \in DOMAIN tile_data}

C20_InterpretedGridShape ==
    (call.op = "interpret_tilemap_output") =>
        /\ interpreted_result.type = "Array"
        /\ Len(interpreted_result.value) = Engine.height
        /\ \A i \in 1 .. Engine.height :
              /\ Len(interpreted_result.value[i]) = Engine.width
              /\ \A j \in 1 .. Engine.width :
                    /\ Len(interpreted_result.value[i][j]) = 2
                    /\ interpreted_result.value[i][j][1] \in MarkerIds
                    /\ interpreted_result.value[i][j][2] \in 0 .. 7

\* A grid of two rows and one column has been interpreted, a cell of it
\* holding a tile that is not in its base orientation.
C20_TwoRowsInterpreted ==
    /\ call.op = "interpret_tilemap_output"
    /\ Engine.height = 2 /\ Engine.width = 1
    /\ interpreted_result.type = "Array"
    /\ Len(interpreted_result.value) = 2
    /\ \E i \in 1 .. 2 : interpreted_result.value[i][1][2] # 0

(***************************************************************************)
(* C21: with the tiles "wall" (asymmetric) and "empty" (fully symmetric),  *)
(* the one rule empty - empty and a grid three wide and one high, every    *)
(* generate() returns a grid whose three cells hold "empty" in orientation *)
(* 0, whatever the seed.                                                   *)
(***************************************************************************)
C21_ExampleAllEmpty ==
    (Returned("generate") /\ HasEngine) =>
        /\ Len(ret.value) = 1
        /\ \A j \in 1 .. 3 :
              /\ ret.value[1].items[j].tile = find_tile_id(tile_keys, "empty")
              /\ ret.value[1].items[j].orientation = 0

(***************************************************************************)
(* C22: a set_tile call made while the current type is overlapping returns *)
(* false and leaves the engine variant as it was; a set_pattern_from_array *)
(* or set_pattern_from_path call made while the current type is tiling     *)
(* does the same; and a set_tile call with a key that is no key of the     *)
(* last initialize_tiling call returns false with the wave unchanged.      *)
(***************************************************************************)
Refused == ret' = Bool(FALSE) /\ wfc_instance' = wfc_instance

SetTileStep == pc = "idle" /\ call'.op = "set_tile"
SetPatternStep ==
    pc = "idle" /\ call'.op \in {"set_pattern_from_array", "set_pattern_from_path"}

C22_WrongKindRefused ==
    [][/\ (SetTileStep /\ current_type = TYPE_OVERLAPPING) => Refused
       /\ (SetPatternStep /\ current_type = TYPE_TILING) => Refused
       /\ (SetTileStep /\ call'.target.tile_key \notin KnownKeys) => Refused]_vars

\* A tiling wrapper whose engine has taken an injection has refused a key
\* its tile_data does not hold.
C22_UnknownKeyRefused ==
    /\ Returned("set_tile")
    /\ current_type = TYPE_TILING /\ HasEngine
    /\ injected # {}
    /\ call.target.tile_key \notin KnownKeys
    /\ ret = Bool(FALSE)

(***************************************************************************)
(* C23: once a domain of the held engine is empty the grid is failed for   *)
(* good: the frontier is empty and no observation is pending, no step that *)
(* keeps the engine changes any domain, and a generate() on it returns no  *)
(* grid.                                                                   *)
(***************************************************************************)
Failed == HasEngine /\ Contradiction(Engine)

FailedKept ==
    (Failed /\ HasEngine' /\ inits' = inits) =>
        wfc_instance'.ptr.wave = Engine.wave

DomainsInhabited ==
    (HasEngine /\ ~Contradiction(Engine)) =>
        \A c \in DOMAIN Engine.wave : Cardinality(Engine.wave[c]) >= 1

ObservesUndetermined ==
    (pc = "observe" /\ pc' = "propagate") =>
        \E c \in Undetermined(Engine) :
            /\ Cardinality(wfc_instance'.ptr.wave[c]) = 1
            /\ wfc_instance'.ptr.wave[c] \subseteq Engine.wave[c]

CollapsedKept ==
    (HasEngine /\ HasEngine' /\ inits' = inits) =>
        \A c \in DOMAIN Engine.wave :
            Cardinality(Engine.wave[c]) <= 1 =>
                wfc_instance'.ptr.wave[c] \subseteq Engine.wave[c]

C24_CollapsedCellsNotRevisited ==
    /\ []DomainsInhabited
    /\ [][ObservesUndetermined /\ CollapsedKept]_vars

\* An observation has just been made beside a cell that an injection had
\* collapsed before the run.
C24_ObservedBesideInjectedCell ==
    /\ pc = "propagate"
    /\ injected # {}
    /\ \A p \in injected : Cardinality(Engine.wave[PlacedCell(p)]) = 1
    /\ Cardinality(DOMAIN Engine.wave) > 1

(***************************************************************************)
(* C25: between calls, and between the iterations of a run, the frontier   *)
(* of the held engine is empty; and when an injection returns without a    *)
(* contradiction, every cell whose domain it changed has no neighbour      *)
(* holding an element that the cell's remaining elements do not support.   *)
(***************************************************************************)
FrontierDrained ==
    (HasEngine /\ pc \in {"idle", "observe"}) => Engine.propagating = <<>>

InjectionPropagated ==
    (/\ pc = "idle" /\ pc' = "idle"
     /\ HasEngine /\ HasEngine' /\ inits' = inits
     /\ ~Contradiction(wfc_instance'.ptr)) =>
        \A c \in DOMAIN Engine.wave :
            wfc_instance'.ptr.wave[c] # Engine.wave[c] =>
                \A d \in Directions :
                    LET c2 == Neighbour(Engine, c, d)
                    IN  c2 # 0 => Unsupported(wfc_instance'.ptr, c, d, c2) = {}

C25_FrontierDrained ==
    /\ []FrontierDrained
    /\ [][InjectionPropagated]_vars

\* An accepted set_tile call has returned having narrowed a cell other
\* than its target.
C25_NeighbourNarrowedByInjection ==
    /\ Returned("set_tile")
    /\ ret = Bool(TRUE)
    /\ Cardinality(injected) = 1
    /\ Engine.propagating = <<>>
    /\ \E p \in injected, c \in DOMAIN Engine.wave :
          /\ c # PlacedCell(p)
          /\ Engine.wave[c] # DOMAIN Engine.catalog

(***************************************************************************)
(* C26: in an overlapping engine, pattern B is compatible with pattern A   *)
(* in direction d exactly when every cell of A's window that also lies in  *)
(* B's window, B's window being A's moved one cell in d, holds the value   *)
(* B has there; no two catalog entries are equal patterns; and the weight  *)
(* of an entry is the number of (window, symmetry variant) pairs of the    *)
(* sample that are that pattern.                                           *)
(***************************************************************************)
OverlapMatches(A, B, d) ==
    LET N == Len(A)
    IN  \A ya, xa, yb, xb \in 1 .. N :
            (ya = yb + DirectionY(d) /\ xa = xb + DirectionX(d)) =>
                A[ya][xa] = B[yb][xb]

HoldsPatterns ==
    /\ HasEngine
    /\ Engine.kind = "overlapping"
    /\ call.op = "initialize_overlapping_from_array"

Windows(sample, options) ==
    LET N == options.pattern_size
    IN  IF options.periodic_input
        THEN (0 .. sample.height - 1) \X (0 .. sample.width - 1)
        ELSE (0 .. sample.height - N) \X (0 .. sample.width - N)

Produced(sample, options) ==
    Windows(sample, options) \X (1 .. options.symmetry)

VariantAt(sample, options, ws) ==
    Symmetries(GetPattern(sample, ws[1][1], ws[1][2], options.pattern_size))[ws[2]]

C26_OverlapCompatibility ==
    HoldsPatterns =>
        LET cat == Engine.catalog
            made == Produced(call.sample, Engine.options)
        IN  /\ \A a, b \in DOMAIN cat : \A d \in Directions :
                  (<<a, d, b>> \in Engine.compat) <=> OverlapMatches(cat[a], cat[b], d)
            /\ \A a, b \in DOMAIN cat : cat[a] = cat[b] => a = b
            /\ \A ws \in made : \E e \in DOMAIN cat :
                  cat[e] = VariantAt(call.sample, Engine.options, ws)
            /\ \A e \in DOMAIN cat :
                  Engine.weights[e] =
                      Cardinality({ws \in made :
                          VariantAt(call.sample, Engine.options, ws) = cat[e]})

\* A sample has given at least three patterns of size 2, one of them more
\* than once, with a compatible and an incompatible pair among them.
C26_SeveralPatternsExtracted ==
    /\ HoldsPatterns
    /\ Engine.options.pattern_size = 2
    /\ Len(Engine.catalog) >= 3
    /\ \E e \in DOMAIN Engine.catalog : Engine.weights[e] > 1
    /\ \E a, b \in DOMAIN Engine.catalog : \E d \in Directions :
          /\ <<a, d, b>> \in Engine.compat
          /\ <<b, d, a>> \notin Engine.compat

(***************************************************************************)
(* C27: whenever the wrapper is between calls and holds an engine,         *)
(* current_type is TYPE_OVERLAPPING exactly when the engine held is an     *)
(* overlapping one and TYPE_TILING exactly when it is a tiling one.        *)
(***************************************************************************)
C27_TypeAgreesWithEngine ==
    (pc = "idle" /\ HasEngine) =>
        /\ (current_type = TYPE_OVERLAPPING) <=> (Engine.kind = "overlapping")
        /\ (current_type = TYPE_TILING) <=> (Engine.kind = "tiling")

(***************************************************************************)
(* C28: with a tiling engine held, the id find_tile_id gives for every key *)
(* of the tile_data last passed is below the number of tiles the engine    *)
(* received, the engine's tile at that index is the one built from that    *)
(* key's content, and every tile id of a forwarded rule is below the       *)
(* number of tiles.                                                        *)
(***************************************************************************)
C28_TileIdsAreTileIndices ==
    (pc = "idle" /\ HasEngine /\ Engine.kind = "tiling") =>
        /\ \A i \in DOMAIN tile_data :
              LET id == find_tile_id(tile_keys, tile_data[i].key)
              IN  /\ id >= 0
                  /\ ValidContent(tile_data[i].content) =>
                        IF id < Len(Engine.tiles)
                        THEN Engine.tiles[id + 1].content =
                                 TileArray(tile_data[i].content)
                        ELSE FALSE
        /\ \A n \in DOMAIN Engine.neighbors :
              /\ Engine.neighbors[n][1] < Len(Engine.tiles)
              /\ Engine.neighbors[n][3] < Len(Engine.tiles)

(***************************************************************************)
(* C29: every adjacency rule create_tilemap_data returns for a tilemap     *)
(* carries, for each of its two tiles, the orientation (r / 90) mod 4 of   *)
(* the rotation r that _extract_adjacency_rules gave the tile: the tile's  *)
(* rotation plus the adjustment of the rule's direction.                   *)
(***************************************************************************)
TilemapRead ==
    /\ call.op \in {"set_cell", "_display_result"}
    /\ interpreted_result # Void

ExtractedRules ==
    _extract_adjacency_rules(_get_tile_data_dict(call.tile_map_layer).tiles)

C29_OrientationOfAdjustedRotation ==
    TilemapRead =>
        interpreted_result.value.adjacency_rules =
            {[tile1 |-> rule.tile1.source_id,
              orientation1 |-> (rule.tile1.rotation_degrees \div 90) % 4,
              tile2 |-> rule.tile2.source_id,
              orientation2 |-> (rule.tile2.rotation_degrees \div 90) % 4] :
                rule \in ExtractedRules}

(***************************************************************************)
(* C30: when create_tilemap_data reads a tilemap _display_result wrote     *)
(* from a row of two cells, the rule it returns for the pair carries the   *)
(* two orientations of the result.                                         *)
(***************************************************************************)
C30_DisplayedOrientationReadBack ==
    (TilemapRead /\ call.op = "_display_result" /\ Len(call.result_array) = 1) =>
        interpreted_result.value.adjacency_rules =
            {[tile1 |-> call.result_array[1][1][1],
              orientation1 |-> call.result_array[1][1][2],
              tile2 |-> call.result_array[1][2][1],
              orientation2 |-> call.result_array[1][2][2]]}

====
